---- MODULE Spec2Model ----
(***************************************************************************)
(* Jail sandbox lifecycle of src/src/freebsd/dtrace.ts (lines 516-1117):   *)
(* ensureJailSandbox, createJail, destroyJailSandbox, jailContainerState    *)
(* and the zfs / mount / rctl / jail helpers they call.                     *)
(*                                                                         *)
(* Strings are sequences of one-character strings, so that slice, replace,  *)
(* startsWith, includes and sort are computed as the code computes them.    *)
(* The host (jails, ZFS datasets, mount table, rctl rules, registry file)   *)
(* is the state; every external tool invocation may fail.                   *)
(***************************************************************************)
EXTENDS Integers, Sequences, FiniteSets, TLC

\* ------------------------------------------------------------------------
\* Bounds of the model
\* ------------------------------------------------------------------------

\* Number of ensure / destroy calls in one behaviour.
MaxCalls == 2

\* The clock does not advance beyond this many milliseconds.
MaxNow == 300000

\* Number of tool invocations that fail in one behaviour.
MaxFaults == 2

\* Length of the longest session key.
MaxKeyLen == 63

\* Length of the longest unit-name prefix.
MaxPrefixLen == 64

\* jailExec calls in a behaviour of the exec contract.
MaxExecs == 2

\* Calls in a behaviour of the deferred recreation.
MaxDeferCalls == 3

\* ------------------------------------------------------------------------
\* Strings
\* ------------------------------------------------------------------------

\* The characters the model uses, in UTF-16 code unit order (the order of
\* Array.prototype.sort without a comparator).
CharOrder ==
  << " ", "-", ".", "/", "0", "1", "2", "3", "4", "6", ":", "@", "A", "S",
     "_", "a", "b", "c", "d", "e", "h", "j", "k", "m", "p", "r", "s", "t",
     "v", "w", "x", "z", "{", "}" >>

Code(ch) == CHOOSE i \in 1..Len(CharOrder) : CharOrder[i] = ch

\* a < b as JavaScript compares strings.
RECURSIVE StrLess(_, _)
StrLess(a, b) ==
  IF b = <<>> THEN FALSE
  ELSE IF a = <<>> THEN TRUE
  ELSE IF Head(a) # Head(b) THEN Code(Head(a)) < Code(Head(b))
  ELSE StrLess(Tail(a), Tail(b))

\* String.prototype.startsWith
StartsWith(s, p) == Len(p) <= Len(s) /\ SubSeq(s, 1, Len(p)) = p

\* String.prototype.includes
Includes(s, p) ==
  \E i \in 0..(Len(s) - Len(p)) : SubSeq(s, i + 1, i + Len(p)) = p

\* String.prototype.slice(0, n)
Slice0(s, n) == SubSeq(s, 1, IF Len(s) < n THEN Len(s) ELSE n)

\* String.prototype.trim (the model's only white space is " ")
RECURSIVE TrimStart(_)
TrimStart(s) == IF s # <<>> /\ Head(s) = " " THEN TrimStart(Tail(s)) ELSE s

RECURSIVE TrimEnd(_)
TrimEnd(s) ==
  IF s # <<>> /\ s[Len(s)] = " " THEN TrimEnd(SubSeq(s, 1, Len(s) - 1)) ELSE s

Trim(s) == TrimEnd(TrimStart(s))

\* path.join(a, b) for a normalised absolute a and a b without "." or ".."
\* segments: one separator between the two, none doubled.
PathJoin(a, b) ==
  LET l == IF a # <<>> /\ a[Len(a)] = "/" THEN SubSeq(a, 1, Len(a) - 1) ELSE a
      r == IF b # <<>> /\ Head(b) = "/" THEN Tail(b) ELSE b
  IN  IF r = <<>> THEN l ELSE l \o <<"/">> \o r

\* Array.prototype.sort() on strings: ascending, duplicates kept.
RECURSIVE SortStrings(_)
SortStrings(xs) ==
  IF xs = <<>> THEN <<>>
  ELSE LET i == CHOOSE k \in 1..Len(xs) :
                  \A m \in 1..Len(xs) : ~StrLess(xs[m], xs[k])
       IN  <<xs[i]>> \o SortStrings(SubSeq(xs, 1, i - 1) \o SubSeq(xs, i + 1, Len(xs)))

\* reverse() left out.
Reverse_None(xs) == xs

\* Array.prototype.reverse()
RECURSIVE Reverse(_)
Reverse(xs) == IF xs = <<>> THEN <<>> ELSE Reverse(Tail(xs)) \o <<Head(xs)>>


\* ------------------------------------------------------------------------
\* Constants of the code
\* ------------------------------------------------------------------------

HOT_JAIL_WINDOW_MS == 5 * 60 * 1000

DEFAULT_DEVFS_RULESET == 4

\* The name-length limit of slice(0, 64).
JAIL_NAME_MAX == 64

\* SANDBOX_AGENT_WORKSPACE_MOUNT of ./constants.js
SANDBOX_AGENT_WORKSPACE_MOUNT == << "/", "a", "w" >>

\* ------------------------------------------------------------------------
\* Inputs: jail configurations, workspace parameters, session keys
\* ------------------------------------------------------------------------

\* SandboxJailConfig.  An optional number is the empty set or a singleton.
JailA ==
  [ baseDataset    |-> << "z", "/", "b" >>,
    baseSnapshot   |-> << "c" >>,
    cloneParent    |-> << "z", "/", "j" >>,
    jailPrefix     |-> << "a", "-" >>,
    workdir        |-> << "/", "w" >>,
    readOnlyRoot   |-> FALSE,
    tmpfs          |-> << << "/", "t" >> >>,
    network        |-> "none",
    devfsRuleset   |-> {},
    setupCommand   |-> << "x" >>,
    maxProc        |-> {64},
    memoryuse      |-> {},
    vmemoryuse     |-> {},
    pcpu           |-> {},
    openfiles      |-> {},
    coredumpsize   |-> {},
    extraRctlRules |-> << >>,
    nullfsMounts   |-> << >>,
    jailParams     |-> << >>,
    dns            |-> << >>,
    extraHosts     |-> << >> ]

\* JailA with another process limit: the same unit name, another fingerprint.
JailB == [JailA EXCEPT !.maxProc = {32}]

\* JailA with another prefix: another unit name for the same scope key.
JailC == [JailA EXCEPT !.jailPrefix = << "b", "-" >>]

\* JailA built from another snapshot of the base dataset.
JailG == [JailA EXCEPT !.baseSnapshot = << "d" >>]

JailCfgs == {JailA, JailB, JailC}

SessionKeys == { << "s", "1" >>, << "S", "2" >> }

HostWorkspace == << "/", "h" >>

HostAgentWorkspace == << "/", "k" >>

\* params of ensureJailSandbox
Params(k, j, agentDir, access) ==
  [ sessionKey        |-> k,
    workspaceDir      |-> HostWorkspace,
    agentWorkspaceDir |-> agentDir,
    cfg |-> [scope |-> "session", jail |-> j, workspaceAccess |-> access] ]

EnsureParams ==
  { Params(<< "s", "1" >>, j, HostWorkspace, "rw") : j \in JailCfgs }
  \cup { Params(<< "S", "2" >>, JailA, HostAgentWorkspace, "ro") }

\* ------------------------------------------------------------------------
\* Naming and fingerprint
\* ------------------------------------------------------------------------

\* resolveSandboxScopeKey of ./shared.js: the scope key of (scope kind,
\* session identifier); every shared scope has the one key "shared".
resolveSandboxScopeKey(scope, sessionKey) ==
  IF scope = "shared" THEN << "s", "h", "a", "r", "e", "d" >> ELSE sessionKey

SlugSafe ==
  { "a", "b", "c", "d", "e", "h", "j", "k", "m", "p", "r", "s", "t", "v",
    "w", "x", "z", "0", "1", "2", "3", "4", "6", ".", "_", "-" }

LowerCase(ch) == IF ch = "A" THEN "a" ELSE IF ch = "S" THEN "s" ELSE ch

\* slugifySessionKey of ./shared.js: a deterministic identifier-safe slug.
slugifySessionKey(key) ==
  [ i \in 1..Len(key) |->
      IF LowerCase(key[i]) \in SlugSafe THEN LowerCase(key[i]) ELSE "-" ]

NameSafe == SlugSafe \cup { "A", "S" }

\* The replacement left out.
ReplaceUnsafe_None(s) == s

\* replace(/[^a-zA-Z0-9._-]/g, "_")
ReplaceUnsafe(s) == [ i \in 1..Len(s) |-> IF s[i] \in NameSafe THEN s[i] ELSE "_" ]

\* The jail name of ensureJailSandbox.
JailNameOf(scope, sessionKey, jailPrefix) ==
  LET scopeKey == resolveSandboxScopeKey(scope, sessionKey)
      slug     == IF scope = "shared"
                    THEN << "s", "h", "a", "r", "e", "d" >>
                    ELSE slugifySessionKey(scopeKey)
  IN  ReplaceUnsafe(Slice0(jailPrefix \o slug, JAIL_NAME_MAX))

\* computeSandboxConfigHash of ./config-hash.js: a serialisation of the bag
\* of values, equal exactly for equal bags.
computeSandboxConfigHash(bag) ==
  << bag.docker, bag.workspaceAccess, bag.workspaceDir, bag.agentWorkspaceDir >>

snapshotPath(cfg) == cfg.baseDataset \o << "@" >> \o cfg.baseSnapshot

cloneDataset(cfg, jailName) == cfg.cloneParent \o << "/" >> \o jailName

\* The mountpoint property of a dataset: ZFS mounts a dataset at "/" plus
\* its name unless told otherwise.
MountpointOf(dataset) == << "/" >> \o dataset


\* ------------------------------------------------------------------------
\* The host and the external tools
\*
\* A context c holds the host state a call works on (jails, datasets,
\* mounts, rules), the log of the tool invocations of the call (ops) and the
\* number of invocations of the current phase (n).  The f-th invocation of
\* a phase fails (non-zero exit or time-out); f = 0 means none does.
\* ------------------------------------------------------------------------

NoErr == [tool |-> "", arg |-> << >>]

Err(tool, arg) == [tool |-> tool, arg |-> arg]

Fails(c, f) == c.n + 1 = f

Logged(c, ph, tool, arg, src, ro, ok) ==
  [c EXCEPT !.n = @ + 1,
            !.ops = Append(@, [phase |-> ph, tool |-> tool, arg |-> arg,
                               src |-> src, ro |-> ro, ok |-> ok])]

StartPhase(c) == [c EXCEPT !.n = 0]

\* The snapshots the host has.
HostSnapshots == { snapshotPath(j) : j \in JailCfgs \cup {JailG} }

\* jls -j <name> jid, with allowFailure
jls(c, ph, f, jailName) ==
  LET ok == ~Fails(c, f) /\ jailName \in DOMAIN c.jails
  IN  [c |-> Logged(c, ph, "jls", jailName, << >>, FALSE, ok), ok |-> ok]

\* zfs get -H -o value mountpoint <dataset>
cloneMountpoint(c, ph, f, dataset) ==
  LET ok == ~Fails(c, f) /\ dataset \in DOMAIN c.datasets
  IN  [c   |-> Logged(c, ph, "zfs get", dataset, << >>, FALSE, ok),
       err |-> IF ok THEN NoErr ELSE Err("zfs get", dataset),
       val |-> IF ok THEN MountpointOf(dataset) ELSE << >>]

\* zfs list -H -o name <dataset>, with allowFailure
zfsDatasetExists(c, ph, f, dataset) ==
  LET ok == ~Fails(c, f) /\ dataset \in DOMAIN c.datasets
  IN  [c |-> Logged(c, ph, "zfs list", dataset, << >>, FALSE, ok), val |-> ok]

\* zfs create -p <dataset>
ZfsCreate(c, ph, f, dataset) ==
  LET ok == ~Fails(c, f)
      c1 == Logged(c, ph, "zfs create", dataset, << >>, FALSE, ok)
  IN  [c   |-> IF ok /\ dataset \notin DOMAIN c.datasets
                 THEN [c1 EXCEPT !.datasets = (dataset :> [origin |-> << >>]) @@ @]
                 ELSE c1,
       err |-> IF ok THEN NoErr ELSE Err("zfs create", dataset)]

\* zfs clone <snap> <dataset>: the new dataset is mounted at its mountpoint.
ZfsCloneCmd(c, ph, f, snap, parent, dataset) ==
  LET ok == /\ ~Fails(c, f)
            /\ snap \in HostSnapshots
            /\ parent \in DOMAIN c.datasets
            /\ dataset \notin DOMAIN c.datasets
      c1 == Logged(c, ph, "zfs clone", dataset, snap, FALSE, ok)
  IN  [c   |-> IF ok
                 THEN [c1 EXCEPT
                         !.datasets = (dataset :> [origin |-> snap]) @@ @,
                         !.mounts = Append(@, [fs |-> "zfs", src |-> dataset,
                                               mp |-> MountpointOf(dataset),
                                               ro |-> FALSE])]
                 ELSE c1,
       err |-> IF ok THEN NoErr ELSE Err("zfs clone", dataset)]

\* zfsClone without the look at the clone dataset.
zfsClone_Unchecked(c, ph, f, cfg, jailName) ==
  LET dataset == cloneDataset(cfg, jailName)
      snap == snapshotPath(cfg)
      Cloned(r4) ==
        IF r4.err # NoErr THEN [c |-> r4.c, err |-> r4.err, val |-> << >>]
        ELSE cloneMountpoint(r4.c, ph, f, dataset)
      ParentReady(r3) ==
        IF r3.err # NoErr THEN [c |-> r3.c, err |-> r3.err, val |-> << >>]
        ELSE Cloned(ZfsCloneCmd(r3.c, ph, f, snap, cfg.cloneParent, dataset))
      ParentChecked(r2) ==
        ParentReady(IF ~r2.val THEN ZfsCreate(r2.c, ph, f, cfg.cloneParent)
                               ELSE [c |-> r2.c, err |-> NoErr])
  IN  ParentChecked(zfsDatasetExists(c, ph, f, cfg.cloneParent))

zfsClone(c, ph, f, cfg, jailName) ==
  LET dataset == cloneDataset(cfg, jailName)
      snap == snapshotPath(cfg)
      Cloned(r4) ==
        IF r4.err # NoErr THEN [c |-> r4.c, err |-> r4.err, val |-> << >>]
        ELSE cloneMountpoint(r4.c, ph, f, dataset)
      ParentReady(r3) ==
        IF r3.err # NoErr THEN [c |-> r3.c, err |-> r3.err, val |-> << >>]
        ELSE Cloned(ZfsCloneCmd(r3.c, ph, f, snap, cfg.cloneParent, dataset))
      ParentChecked(r2) ==
        ParentReady(IF ~r2.val THEN ZfsCreate(r2.c, ph, f, cfg.cloneParent)
                               ELSE [c |-> r2.c, err |-> NoErr])
      Checked(r1) ==
        IF r1.val THEN cloneMountpoint(r1.c, ph, f, dataset)
        ELSE ParentChecked(zfsDatasetExists(r1.c, ph, f, cfg.cloneParent))
  IN  Checked(zfsDatasetExists(c, ph, f, dataset))

\* zfs destroy -r <dataset>, with allowFailure: the dataset, its descendants
\* and their own mounts go.
ZfsDestroy(c, ph, f, dataset) ==
  LET ok == ~Fails(c, f) /\ dataset \in DOMAIN c.datasets
      gone == { d \in DOMAIN c.datasets :
                  d = dataset \/ StartsWith(d, dataset \o << "/" >>) }
  IN  IF ok
        THEN [Logged(c, ph, "zfs destroy", dataset, << >>, FALSE, ok) EXCEPT
                !.datasets = [d \in DOMAIN @ \ gone |-> @[d]],
                !.mounts = SelectSeq(@, LAMBDA m : ~(m.fs = "zfs" /\ m.src \in gone))]
        ELSE Logged(c, ph, "zfs destroy", dataset, << >>, FALSE, ok)

\* zfsDestroyClone without the existence check.
zfsDestroyClone_Unchecked(c, ph, f, cfg, jailName) ==
  [c |-> ZfsDestroy(c, ph, f, cloneDataset(cfg, jailName)), err |-> NoErr]

\* zfsDestroyClone: the destroy runs only when the dataset is listed.
zfsDestroyClone(c, ph, f, cfg, jailName) ==
  LET dataset == cloneDataset(cfg, jailName)
      Checked(r1) ==
        IF ~r1.val THEN [c |-> r1.c, err |-> NoErr]
        ELSE [c |-> ZfsDestroy(r1.c, ph, f, dataset), err |-> NoErr]
  IN  Checked(zfsDatasetExists(c, ph, f, dataset))

\* Mount points of the mount table, one per line of mount -p.
MountPoints(mounts) == [i \in 1..Len(mounts) |-> mounts[i].mp]

\* mount -t devfs, with allowFailure: the devfs lines of the mount table.
MountListDevfs(c, ph, f) ==
  LET ok == ~Fails(c, f)
  IN  [c |-> Logged(c, ph, "mount -t devfs", << >>, << >>, FALSE, ok),
       stdout |-> IF ok THEN SelectSeq(c.mounts, LAMBDA m : m.fs = "devfs") ELSE << >>]

\* mount -t devfs -o ruleset=<n> devfs <devPath>
MountDevfsCmd(c, ph, f, devPath) ==
  LET ok == ~Fails(c, f)
      c1 == Logged(c, ph, "mount devfs", devPath, << >>, FALSE, ok)
  IN  [c   |-> IF ok
                 THEN [c1 EXCEPT !.mounts =
                         Append(@, [fs |-> "devfs", src |-> << >>,
                                    mp |-> devPath, ro |-> FALSE])]
                 ELSE c1,
       err |-> IF ok THEN NoErr ELSE Err("mount devfs", devPath)]

\* mountDevfs: mounts <jailRoot>/dev unless the devfs list includes it.
mountDevfs(c, ph, f, jailRoot, ruleset) ==
  LET devPath == PathJoin(jailRoot, << "d", "e", "v" >>)
      Listed(r) ==
        IF \E i \in 1..Len(r.stdout) : Includes(r.stdout[i].mp, devPath)
          THEN [c |-> r.c, err |-> NoErr]
          ELSE MountDevfsCmd(r.c, ph, f, devPath)
  IN  Listed(MountListDevfs(c, ph, f))

\* mount_nullfs [-o ro] <src> <dst>
mountNullfs(c, ph, f, src, dst, readOnly) ==
  LET ok == ~Fails(c, f)
      c1 == Logged(c, ph, "mount_nullfs", dst, src, readOnly, ok)
  IN  [c   |-> IF ok
                 THEN [c1 EXCEPT !.mounts =
                         Append(@, [fs |-> "nullfs", src |-> src,
                                    mp |-> dst, ro |-> readOnly])]
                 ELSE c1,
       err |-> IF ok THEN NoErr ELSE Err("mount_nullfs", dst)]

\* mount -t tmpfs tmpfs <dst>
mountTmpfs(c, ph, f, dst) ==
  LET ok == ~Fails(c, f)
      c1 == Logged(c, ph, "mount tmpfs", dst, << >>, FALSE, ok)
  IN  [c   |-> IF ok
                 THEN [c1 EXCEPT !.mounts =
                         Append(@, [fs |-> "tmpfs", src |-> << >>,
                                    mp |-> dst, ro |-> FALSE])]
                 ELSE c1,
       err |-> IF ok THEN NoErr ELSE Err("mount tmpfs", dst)]


\* ------------------------------------------------------------------------
\* rctl rules
\* ------------------------------------------------------------------------

Digit(d) == << "0", "1", "2", "3", "4", "5", "6", "7", "8", "9" >>[d + 1]

\* `${value}` of a non-negative integer
RECURSIVE ToStr(_)
ToStr(v) == IF v < 10 THEN << Digit(v) >> ELSE ToStr(v \div 10) \o << Digit(v % 10) >>

\* replace(/\{name\}/g, jailName)
RECURSIVE ReplaceName(_, _)
ReplaceName(raw, jailName) ==
  LET pat == << "{", "n", "a", "m", "e", "}" >>
  IN  IF raw = << >> THEN << >>
      ELSE IF StartsWith(raw, pat)
        THEN jailName \o ReplaceName(SubSeq(raw, Len(pat) + 1, Len(raw)), jailName)
        ELSE << Head(raw) >> \o ReplaceName(Tail(raw), jailName)

RctlRule(jailName, resource, action, value) ==
  << "j", "a", "i", "l", ":" >> \o jailName \o << ":" >> \o resource
    \o << ":" >> \o action \o << "=" >> \o ToStr(value)

Deny == << "d", "e", "n", "y" >>

RECURSIVE ExtraRules(_, _)
ExtraRules(raws, jailName) ==
  IF raws = << >> THEN << >>
  ELSE LET rule == ReplaceName(Head(raws), jailName)
       IN  (IF Trim(rule) # << >> THEN << Trim(rule) >> ELSE << >>)
             \o ExtraRules(Tail(raws), jailName)

\* buildRctlRules with coredumpsize treated as the other bounds: zero
\* gives no rule.
buildRctlRules_CorePositive(jailName, cfg) ==
  LET pos(field, resource) ==
        IF \E v \in field : v > 0
          THEN << RctlRule(jailName, resource, Deny, CHOOSE v \in field : TRUE) >>
          ELSE << >>
  IN  pos(cfg.maxProc, << "m", "a", "x", "p", "r", "o", "c" >>)
        \o pos(cfg.memoryuse, << "m", "e", "m", "o", "r", "y", "u", "s", "e" >>)
        \o pos(cfg.vmemoryuse, << "v", "m", "e", "m", "o", "r", "y", "u", "s", "e" >>)
        \o pos(cfg.pcpu, << "p", "c", "p", "u" >>)
        \o pos(cfg.openfiles, << "o", "p", "e", "n", "f", "i", "l", "e", "s" >>)
        \o pos(cfg.coredumpsize,
               << "c", "o", "r", "e", "d", "u", "m", "p", "s", "i", "z", "e" >>)
        \o ExtraRules(cfg.extraRctlRules, jailName)

buildRctlRules(jailName, cfg) ==
  LET pos(field, resource) ==
        IF \E v \in field : v > 0
          THEN << RctlRule(jailName, resource, Deny, CHOOSE v \in field : TRUE) >>
          ELSE << >>
      core == IF \E v \in cfg.coredumpsize : v >= 0
                THEN << RctlRule(jailName,
                                 << "c", "o", "r", "e", "d", "u", "m", "p", "s", "i", "z", "e" >>,
                                 Deny, CHOOSE v \in cfg.coredumpsize : TRUE) >>
                ELSE << >>
  IN  pos(cfg.maxProc, << "m", "a", "x", "p", "r", "o", "c" >>)
        \o pos(cfg.memoryuse, << "m", "e", "m", "o", "r", "y", "u", "s", "e" >>)
        \o pos(cfg.vmemoryuse, << "v", "m", "e", "m", "o", "r", "y", "u", "s", "e" >>)
        \o pos(cfg.pcpu, << "p", "c", "p", "u" >>)
        \o pos(cfg.openfiles, << "o", "p", "e", "n", "f", "i", "l", "e", "s" >>)
        \o core
        \o ExtraRules(cfg.extraRctlRules, jailName)

\* rctl -a <rule>, one invocation per rule; the first failure throws.
RECURSIVE applyRctlRules(_, _, _, _)
applyRctlRules(c, ph, f, rules) ==
  IF rules = << >> THEN [c |-> c, err |-> NoErr]
  ELSE LET ok == ~Fails(c, f)
           c1 == Logged(c, ph, "rctl -a", Head(rules), << >>, FALSE, ok)
       IN  IF ok
             THEN applyRctlRules([c1 EXCEPT !.rules = @ \cup {Head(rules)}],
                                 ph, f, Tail(rules))
             ELSE [c |-> c1, err |-> Err("rctl -a", Head(rules))]

\* rctl -r jail:<name>, with allowFailure: the rules of subject jail:<name> go.
removeRctlRules(c, ph, f, jailName) ==
  LET ok == ~Fails(c, f)
      c1 == Logged(c, ph, "rctl -r", jailName, << >>, FALSE, ok)
      subject == << "j", "a", "i", "l", ":" >> \o jailName \o << ":" >>
  IN  IF ok THEN [c1 EXCEPT !.rules = { r \in @ : ~StartsWith(r, subject) }]
      ELSE c1

\* ------------------------------------------------------------------------
\* Jail lifecycle
\* ------------------------------------------------------------------------

\* jail -c name=<name> path=<root> ...: fails when the name is taken.
\* built records the parameters of the creation pipeline that made the jail.
JailCreate(c, ph, f, jailName, jailRoot, built) ==
  LET ok == ~Fails(c, f) /\ jailName \notin DOMAIN c.jails
      c1 == Logged(c, ph, "jail -c", jailName, jailRoot, FALSE, ok)
  IN  [c   |-> IF ok
                 THEN [c1 EXCEPT !.jails =
                         (jailName :> [path |-> jailRoot, built |-> built]) @@ @]
                 ELSE c1,
       err |-> IF ok THEN NoErr ELSE Err("jail -c", jailName)]

\* jail -r <name>, with allowFailure
JailRemove(c, ph, f, jailName) ==
  LET ok == ~Fails(c, f) /\ jailName \in DOMAIN c.jails
      c1 == Logged(c, ph, "jail -r", jailName, << >>, FALSE, ok)
  IN  IF ok THEN [c1 EXCEPT !.jails = [j \in DOMAIN @ \ {jailName} |-> @[j]]]
      ELSE c1

\* umount -f <mp>, with allowFailure: the topmost mount at mp goes.
Umount(c, ph, f, mp) ==
  LET at == { i \in 1..Len(c.mounts) : c.mounts[i].mp = mp }
      ok == ~Fails(c, f) /\ at # {}
      c1 == Logged(c, ph, "umount", mp, << >>, FALSE, ok)
      top == CHOOSE i \in at : \A k \in at : k <= i
  IN  IF ok
        THEN [c1 EXCEPT !.mounts = SubSeq(@, 1, top - 1) \o SubSeq(@, top + 1, Len(@))]
        ELSE c1

RECURSIVE UmountEach(_, _, _, _)
UmountEach(c, ph, f, mps) ==
  IF mps = << >> THEN c
  ELSE UmountEach(Umount(c, ph, f, Head(mps)), ph, f, Tail(mps))

\* mount -p, with allowFailure: the mount points of the mount table.
MountList(c, ph, f) ==
  LET ok == ~Fails(c, f)
  IN  [c |-> Logged(c, ph, "mount -p", << >>, << >>, FALSE, ok),
       stdout |-> IF ok THEN MountPoints(c.mounts) ELSE << >>]

\* MountsUnder without the filter: every mount point of the table.
MountsUnder_All(stdout, jailRoot) == Reverse(SortStrings(stdout))

\* MountsUnder with the prefix test on jailRoot itself, without the "/".
MountsUnder_NoSlash(stdout, jailRoot) ==
  Reverse(SortStrings(SelectSeq(stdout, LAMBDA mp : StartsWith(mp, jailRoot))))

\* The mount points at or under jailRoot, in reverse sorted order.
MountsUnder(stdout, jailRoot) ==
  Reverse(SortStrings(SelectSeq(stdout, LAMBDA mp :
    StartsWith(mp, jailRoot \o << "/" >>) \/ mp = jailRoot)))

\* mount -p, then umount -f of every mount point at or under jailRoot, in
\* reverse sorted order.
unmountAllUnder(c, ph, f, jailRoot) ==
  LET Listed(r) == UmountEach(r.c, ph, f, MountsUnder(r.stdout, jailRoot))
  IN  Listed(MountList(c, ph, f))

\* jailContainerState that takes a failed query for a unit that is there
\* but stopped.
jailContainerState_StoppedOnFailure(c, ph, f, jailName) ==
  LET result == jls(c, ph, f, jailName)
  IN  [c |-> result.c, exists |-> result.ok \/ Fails(c, f), running |-> result.ok]

jailContainerState(c, ph, f, jailName) ==
  LET result == jls(c, ph, f, jailName)
  IN  [c |-> result.c, exists |-> result.ok, running |-> result.ok]

\* jexec <name> ...: the command fails when the jail is gone or exits non-zero.
jailExec(c, ph, f, jailName, allowFailure) ==
  LET ok == ~Fails(c, f) /\ jailName \in DOMAIN c.jails
      c1 == Logged(c, ph, "jexec", jailName, << >>, FALSE, ok)
  IN  [c   |-> c1,
       err |-> IF ok \/ allowFailure THEN NoErr ELSE Err("jexec", jailName),
       code |-> IF ok THEN 0 ELSE 1]

\* destroyJailSandbox with the rules removed before the jail.
destroyJailSandbox_RulesFirst(c0, ph, f, jailName, cfg) ==
  LET dataset == cloneDataset(cfg, jailName)
      Rooted(root) ==
        IF root.err # NoErr THEN [c |-> root.c, err |-> root.err]
        ELSE zfsDestroyClone(unmountAllUnder(root.c, ph, f, root.val),
                             ph, f, cfg, jailName)
      Listed(ex) ==
        IF ~ex.val THEN zfsDestroyClone(ex.c, ph, f, cfg, jailName)
        ELSE Rooted(cloneMountpoint(ex.c, ph, f, dataset))
      Removed(c1, running) ==
        Listed(zfsDatasetExists(IF running THEN JailRemove(c1, ph, f, jailName)
                                           ELSE c1,
                                ph, f, dataset))
      Queried(state) ==
        Removed(removeRctlRules(state.c, ph, f, jailName), state.running)
  IN  Queried(jailContainerState(StartPhase(c0), ph, f, jailName))

\* The steps are written last first: each takes the outcome of the step
\* before it.
destroyJailSandbox(c0, ph, f, jailName, cfg) ==
  LET dataset == cloneDataset(cfg, jailName)
      Rooted(root) ==
        IF root.err # NoErr THEN [c |-> root.c, err |-> root.err]
        ELSE zfsDestroyClone(unmountAllUnder(root.c, ph, f, root.val),
                             ph, f, cfg, jailName)
      Listed(ex) ==
        IF ~ex.val THEN zfsDestroyClone(ex.c, ph, f, cfg, jailName)
        ELSE Rooted(cloneMountpoint(ex.c, ph, f, dataset))
      Removed(c1) ==
        Listed(zfsDatasetExists(removeRctlRules(c1, ph, f, jailName), ph, f, dataset))
      Queried(state) ==
        Removed(IF state.running THEN JailRemove(state.c, ph, f, jailName)
                                 ELSE state.c)
  IN  Queried(jailContainerState(StartPhase(c0), ph, f, jailName))


\* r, then next on r's context unless r threw.
Then(r, next(_)) == IF r.err # NoErr THEN [c |-> r.c, err |-> r.err] ELSE next(r.c)

RECURSIVE MountTmpfsEach(_, _, _, _, _)
MountTmpfsEach(c, ph, f, jailRoot, entries) ==
  IF entries = << >> THEN [c |-> c, err |-> NoErr]
  ELSE Then(mountTmpfs(c, ph, f, PathJoin(jailRoot, Head(entries))),
            LAMBDA c1 : MountTmpfsEach(c1, ph, f, jailRoot, Tail(entries)))

RECURSIVE MountNullfsEach(_, _, _, _, _)
MountNullfsEach(c, ph, f, jailRoot, ms) ==
  IF ms = << >> THEN [c |-> c, err |-> NoErr]
  ELSE Then(mountNullfs(c, ph, f, Head(ms).src, PathJoin(jailRoot, Head(ms).dst),
                        Head(ms).readOnly),
            LAMBDA c1 : MountNullfsEach(c1, ph, f, jailRoot, Tail(ms)))

\* Step 4 of createJail: the workspace bind mounts.
MountWorkspace(c, ph, f, jailRoot, p) ==
  LET wsInsideJail == PathJoin(jailRoot, p.cfg.workdir)
      wsReadOnly == p.workspaceAccess = "ro" /\ p.workspaceDir = p.agentWorkspaceDir
      agentMount == PathJoin(jailRoot, SANDBOX_AGENT_WORKSPACE_MOUNT)
  IN  IF p.workspaceAccess = "none" THEN [c |-> c, err |-> NoErr]
      ELSE Then(mountNullfs(c, ph, f, p.workspaceDir, wsInsideJail, wsReadOnly),
                LAMBDA c1 :
                  IF p.workspaceDir # p.agentWorkspaceDir
                    THEN mountNullfs(c1, ph, f, p.agentWorkspaceDir, agentMount,
                                     p.workspaceAccess = "ro")
                    ELSE [c |-> c1, err |-> NoErr])

\* writeResolvConf / writeExtraHosts: file writes under the root, no tool.
WriteEtc(c, ph, jailRoot, cfg) ==
  LET c1 == IF cfg.dns # << >>
              THEN [c EXCEPT !.ops = Append(@, [phase |-> ph, tool |-> "write resolv.conf",
                                                arg |-> jailRoot, src |-> << >>,
                                                ro |-> FALSE, ok |-> TRUE])]
              ELSE c
  IN  IF cfg.extraHosts # << >>
        THEN [c1 EXCEPT !.ops = Append(@, [phase |-> ph, tool |-> "write hosts",
                                           arg |-> jailRoot, src |-> << >>,
                                           ro |-> FALSE, ok |-> TRUE])]
        ELSE c1

\* CreateSteps with the setup command run before the resource limits.
CreateSteps_SetupFirst(c, ph, f, jailRoot, p) ==
  LET cfg == p.cfg
      ruleset == IF cfg.devfsRuleset = {} THEN DEFAULT_DEVFS_RULESET
                 ELSE CHOOSE v \in cfg.devfsRuleset : TRUE
      rctlRules == buildRctlRules(p.jailName, cfg)
      built == [cfg |-> cfg, workspaceDir |-> p.workspaceDir,
                workspaceAccess |-> p.workspaceAccess,
                agentWorkspaceDir |-> p.agentWorkspaceDir]
  IN  Then(mountDevfs(c, ph, f, jailRoot, ruleset), LAMBDA c2 :
      Then(MountTmpfsEach(c2, ph, f, jailRoot, cfg.tmpfs), LAMBDA c3 :
      Then(MountWorkspace(c3, ph, f, jailRoot, p), LAMBDA c4 :
      Then(MountNullfsEach(c4, ph, f, jailRoot, cfg.nullfsMounts), LAMBDA c5 :
      Then(JailCreate(WriteEtc(c5, ph, jailRoot, cfg), ph, f, p.jailName, jailRoot, built),
           LAMBDA c7 :
      Then(IF Trim(cfg.setupCommand) # << >>
             THEN LET r == jailExec(c7, ph, f, p.jailName, FALSE)
                  IN  [c |-> r.c, err |-> r.err]
             ELSE [c |-> c7, err |-> NoErr], LAMBDA c8 :
           IF rctlRules # << >> THEN applyRctlRules(c8, ph, f, rctlRules)
                                ELSE [c |-> c8, err |-> NoErr]))))))

\* The try block of createJail: steps 2 to 9.
CreateSteps(c, ph, f, jailRoot, p) ==
  LET cfg == p.cfg
      ruleset == IF cfg.devfsRuleset = {} THEN DEFAULT_DEVFS_RULESET
                 ELSE CHOOSE v \in cfg.devfsRuleset : TRUE
      rctlRules == buildRctlRules(p.jailName, cfg)
      built == [cfg |-> cfg, workspaceDir |-> p.workspaceDir,
                workspaceAccess |-> p.workspaceAccess,
                agentWorkspaceDir |-> p.agentWorkspaceDir]
  IN  Then(mountDevfs(c, ph, f, jailRoot, ruleset), LAMBDA c2 :
      Then(MountTmpfsEach(c2, ph, f, jailRoot, cfg.tmpfs), LAMBDA c3 :
      Then(MountWorkspace(c3, ph, f, jailRoot, p), LAMBDA c4 :
      Then(MountNullfsEach(c4, ph, f, jailRoot, cfg.nullfsMounts), LAMBDA c5 :
      Then(JailCreate(WriteEtc(c5, ph, jailRoot, cfg), ph, f, p.jailName, jailRoot, built),
           LAMBDA c7 :
      Then(IF rctlRules # << >> THEN applyRctlRules(c7, ph, f, rctlRules)
                                ELSE [c |-> c7, err |-> NoErr], LAMBDA c8 :
           IF Trim(cfg.setupCommand) # << >>
             THEN LET r == jailExec(c8, ph, f, p.jailName, FALSE)
                  IN  [c |-> r.c, err |-> r.err]
             ELSE [c |-> c8, err |-> NoErr]))))))

\* CatchRollback without the teardown.
CatchRollback_None(body, fr, jailName, cfg) ==
  [c |-> body.c, err |-> body.err, nr |-> 0]

\* CatchRollback without the .catch: a throwing teardown replaces the error.
CatchRollback_Masks(body, fr, jailName, cfg) ==
  LET Back(back) ==
        [c |-> back.c, err |-> IF back.err # NoErr THEN back.err ELSE body.err,
         nr |-> back.c.n]
  IN  Back(destroyJailSandbox(body.c, "rollback", fr, jailName, cfg))

\* The catch block of createJail: destroyJailSandbox(...).catch(() =>
\* undefined), then throw err.  body is the failed try block.
CatchRollback(body, fr, jailName, cfg) ==
  LET Back(back) == [c |-> back.c, err |-> body.err, nr |-> back.c.n]
  IN  Back(destroyJailSandbox(body.c, "rollback", fr, jailName, cfg))

\* createJail with params p = [jailName, cfg, workspaceDir, workspaceAccess,
\* agentWorkspaceDir]; fc and fr are the failing invocations of the
\* pipeline and of its rollback.  nc and nr count their invocations.
createJail(c0, fc, fr, p) ==
  LET Caught(body, caught) ==
        [c |-> caught.c, err |-> caught.err, nc |-> body.c.n, nr |-> caught.nr]
      Tried(body) ==
        IF body.err # NoErr
          THEN Caught(body, CatchRollback(body, fr, p.jailName, p.cfg))
          ELSE [c |-> body.c, err |-> NoErr, nc |-> body.c.n, nr |-> 0]
      Cloned(clone) ==
        IF clone.err # NoErr
          THEN [c |-> clone.c, err |-> clone.err, nc |-> clone.c.n, nr |-> 0]
          ELSE Tried(CreateSteps(clone.c, "create", fc, clone.val, p))
  IN  Cloned(zfsClone(StartPhase(c0), "create", fc, p.cfg, p.jailName))

\* ------------------------------------------------------------------------
\* Registry (./registry.js): entries keyed by unit name
\* ------------------------------------------------------------------------

readRegistry(reg) == reg

\* Upsert by containerName; the last writer wins.
updateRegistry(reg, entry) ==
  [n \in DOMAIN reg \cup {entry.containerName} |->
     IF n = entry.containerName THEN entry ELSE reg[n]]

\* ------------------------------------------------------------------------
\* ensureJailSandbox
\* ------------------------------------------------------------------------

\* HashMismatch with the comparison inverted.
HashMismatch_Inverted(reg, jailName, expectedHash) ==
  jailName \notin DOMAIN reg \/ reg[jailName].configHash = expectedHash

\* hashMismatch: no entry (no current hash) or another hash.
HashMismatch(reg, jailName, expectedHash) ==
  jailName \notin DOMAIN reg \/ reg[jailName].configHash # expectedHash

\* IsHot with the end of the window counted as inside it.
IsHot_Inclusive(running, reg, jailName, nowMs) ==
  running /\ (jailName \notin DOMAIN reg
                \/ nowMs - reg[jailName].lastUsedAtMs <= HOT_JAIL_WINDOW_MS)

\* IsHot with the window comparison reversed.
IsHot_Reversed(running, reg, jailName, nowMs) ==
  running /\ (jailName \notin DOMAIN reg
                \/ nowMs - reg[jailName].lastUsedAtMs > HOT_JAIL_WINDOW_MS)

\* IsHot with a unit the registry does not list counted as cold.
IsHot_UnknownIsCold(running, reg, jailName, nowMs) ==
  running /\ jailName \in DOMAIN reg
          /\ nowMs - reg[jailName].lastUsedAtMs < HOT_JAIL_WINDOW_MS

\* isHot: running, and used within the window or never recorded as used.
IsHot(running, reg, jailName, nowMs) ==
  running /\ (jailName \notin DOMAIN reg
                \/ nowMs - reg[jailName].lastUsedAtMs < HOT_JAIL_WINDOW_MS)

\* ensureJailSandbox with the registry entry written before the unit is
\* created: it stays when the creation fails.
ensureJailSandbox_UpsertsFirst(c0, reg, nowMs, qf, fd, fc, fr, params) ==
  LET cfg == params.cfg
      jailCfg == cfg.jail
      scopeKey == resolveSandboxScopeKey(cfg.scope, params.sessionKey)
      jailName == JailNameOf(cfg.scope, params.sessionKey, jailCfg.jailPrefix)
      expectedHash == computeSandboxConfigHash(
                        [docker |-> jailCfg, workspaceAccess |-> cfg.workspaceAccess,
                         workspaceDir |-> params.workspaceDir,
                         agentWorkspaceDir |-> params.agentWorkspaceDir])
      registry == readRegistry(reg)
      entry == [containerName |-> jailName, sessionKey |-> scopeKey,
                createdAtMs |-> nowMs, lastUsedAtMs |-> nowMs,
                image |-> << "z", "f", "s", ":" >> \o snapshotPath(jailCfg),
                configHash |-> expectedHash]
      Made(made, hint, nd) ==
        IF made.err # NoErr
          THEN [c |-> made.c, reg |-> updateRegistry(reg, entry), err |-> made.err,
                val |-> << >>,
                hint |-> hint, nd |-> nd, nc |-> made.nc, nr |-> made.nr]
          ELSE [c |-> made.c, reg |-> updateRegistry(reg, entry), err |-> NoErr,
                val |-> jailName, hint |-> hint, nd |-> nd, nc |-> made.nc,
                nr |-> made.nr]
      Gone(gone, hasJail, hint, nd) ==
        IF gone.err # NoErr
          THEN [c |-> gone.c, reg |-> reg, err |-> gone.err, val |-> << >>,
                hint |-> hint, nd |-> nd, nc |-> 0, nr |-> 0]
          ELSE Made(IF ~hasJail
                      THEN createJail(gone.c, fc, fr,
                                      [jailName |-> jailName, cfg |-> jailCfg,
                                       workspaceDir |-> params.workspaceDir,
                                       workspaceAccess |-> cfg.workspaceAccess,
                                       agentWorkspaceDir |-> params.agentWorkspaceDir])
                      ELSE [c |-> gone.c, err |-> NoErr, nc |-> 0, nr |-> 0],
                    hint, nd)
      Destroyed(gone) == Gone(gone, FALSE, FALSE, gone.c.n)
      Drifted(state, hashMismatch, isHot) ==
        IF state.exists /\ hashMismatch /\ ~isHot
          THEN Destroyed(destroyJailSandbox(state.c, "destroy", fd, jailName, jailCfg))
          ELSE Gone([c |-> state.c, err |-> NoErr], state.exists,
                    state.exists /\ hashMismatch /\ isHot, 0)
      Queried(state) ==
        Drifted(state, HashMismatch(registry, jailName, expectedHash),
                IsHot(state.running, registry, jailName, nowMs))
  IN  Queried(jailContainerState(StartPhase(c0), "query", IF qf THEN 1 ELSE 0,
                                 jailName))

\* qf: the state query fails; fd, fc, fr: the failing invocation of the
\* drift destroy, of the creation pipeline and of its rollback.
\* The steps are written last first: each takes the outcome of the step
\* before it.
ensureJailSandbox(c0, reg, nowMs, qf, fd, fc, fr, params) ==
  LET cfg == params.cfg
      jailCfg == cfg.jail
      scopeKey == resolveSandboxScopeKey(cfg.scope, params.sessionKey)
      jailName == JailNameOf(cfg.scope, params.sessionKey, jailCfg.jailPrefix)
      expectedHash == computeSandboxConfigHash(
                        [docker |-> jailCfg, workspaceAccess |-> cfg.workspaceAccess,
                         workspaceDir |-> params.workspaceDir,
                         agentWorkspaceDir |-> params.agentWorkspaceDir])
      registry == readRegistry(reg)
      entry == [containerName |-> jailName, sessionKey |-> scopeKey,
                createdAtMs |-> nowMs, lastUsedAtMs |-> nowMs,
                image |-> << "z", "f", "s", ":" >> \o snapshotPath(jailCfg),
                configHash |-> expectedHash]
      Made(made, hint, nd) ==
        IF made.err # NoErr
          THEN [c |-> made.c, reg |-> reg, err |-> made.err, val |-> << >>,
                hint |-> hint, nd |-> nd, nc |-> made.nc, nr |-> made.nr]
          ELSE [c |-> made.c, reg |-> updateRegistry(reg, entry), err |-> NoErr,
                val |-> jailName, hint |-> hint, nd |-> nd, nc |-> made.nc,
                nr |-> made.nr]
      Gone(gone, hasJail, hint, nd) ==
        IF gone.err # NoErr
          THEN [c |-> gone.c, reg |-> reg, err |-> gone.err, val |-> << >>,
                hint |-> hint, nd |-> nd, nc |-> 0, nr |-> 0]
          ELSE Made(IF ~hasJail
                      THEN createJail(gone.c, fc, fr,
                                      [jailName |-> jailName, cfg |-> jailCfg,
                                       workspaceDir |-> params.workspaceDir,
                                       workspaceAccess |-> cfg.workspaceAccess,
                                       agentWorkspaceDir |-> params.agentWorkspaceDir])
                      ELSE [c |-> gone.c, err |-> NoErr, nc |-> 0, nr |-> 0],
                    hint, nd)
      Destroyed(gone) == Gone(gone, FALSE, FALSE, gone.c.n)
      Drifted(state, hashMismatch, isHot) ==
        IF state.exists /\ hashMismatch /\ ~isHot
          THEN Destroyed(destroyJailSandbox(state.c, "destroy", fd, jailName, jailCfg))
          ELSE Gone([c |-> state.c, err |-> NoErr], state.exists,
                    state.exists /\ hashMismatch /\ isHot, 0)
      Queried(state) ==
        Drifted(state, HashMismatch(registry, jailName, expectedHash),
                IsHot(state.running, registry, jailName, nowMs))
  IN  Queried(jailContainerState(StartPhase(c0), "query", IF qf THEN 1 ELSE 0,
                                 jailName))

\* ------------------------------------------------------------------------
\* State
\* ------------------------------------------------------------------------

VARIABLES
  jails,      \* live jails: name -> [path, built]
  datasets,   \* ZFS datasets: name -> [origin]
  mounts,     \* the mount table, oldest first: [fs, src, mp, ro]
  rules,      \* the rctl rules in force
  registry,   \* the registry file: unit name -> entry
  now,        \* Date.now()
  calls,      \* ensure / destroy calls made so far
  faulted,    \* tool invocations that failed so far
  last,       \* the most recent call: its arguments, the state it started
              \* from, its tool invocations and its outcome
  procs,      \* calls in progress, each at one of its awaits
  naming,     \* unit names computed from scope kinds, keys and prefixes
  execs,      \* results of jailExec calls
  lists       \* rule lists and argument lists built from configurations

vars == << jails, datasets, mounts, rules, registry, now, calls, faulted, last,
          procs, naming, execs, lists >>

\* The variables of whole calls made one after the other.
callVars == << now, calls, faulted, last >>

\* The variables the whole-call actions leave alone.
aux == << procs, naming, execs, lists >>

Host == [jails |-> jails, datasets |-> datasets, mounts |-> mounts, rules |-> rules]

Ctx == [jails |-> jails, datasets |-> datasets, mounts |-> mounts, rules |-> rules,
        ops |-> << >>, n |-> 0]

NoParams ==
  [ sessionKey |-> << >>, workspaceDir |-> << >>, agentWorkspaceDir |-> << >>,
    cfg |-> [scope |-> "", jail |-> JailA, workspaceAccess |-> ""] ]

NoFaults == [q |-> FALSE, d |-> 0, c |-> 0, r |-> 0]

\* What a call remembers of the call before it.
Summary(l) ==
  [op |-> l.op, name |-> l.name, params |-> l.params, err |-> l.err, val |-> l.val,
   hint |-> l.hint]

\* The host before any call, with an empty registry.
Fresh ==
  /\ jails = << >>
  /\ datasets = [d \in { j.baseDataset : j \in JailCfgs } |-> [origin |-> << >>]]
  /\ mounts = << >>
  /\ rules = {}
  /\ registry = << >>
  /\ now = 0
  /\ calls = 0
  /\ faulted = 0
  /\ last = [op |-> "none", name |-> << >>, params |-> NoParams, faults |-> NoFaults,
             now |-> 0, pre |-> [host |-> Host, registry |-> registry],
             ops |-> << >>, err |-> NoErr, val |-> << >>, hint |-> FALSE,
             prev |-> [op |-> "none", name |-> << >>, params |-> NoParams,
                       err |-> NoErr, val |-> << >>, hint |-> FALSE]]

Init ==
  /\ Fresh
  /\ procs = << >>
  /\ naming = << >>
  /\ execs = << >>
  /\ lists = << >>

\* The unit names the inputs give.
UnitNames ==
  { JailNameOf(p.cfg.scope, p.sessionKey, p.cfg.jail.jailPrefix) : p \in EnsureParams }

TickSteps == { HOT_JAIL_WINDOW_MS - 1, HOT_JAIL_WINDOW_MS }

\* Time passes between calls.
Tick ==
  /\ calls < MaxCalls
  /\ \E d \in TickSteps : now + d <= MaxNow /\ now' = now + d
  /\ UNCHANGED << jails, datasets, mounts, rules, registry, calls, faulted, last >>
  /\ UNCHANGED aux

\* Number of failing invocations a choice of faults stands for.
FaultCount(qf, fd, fc, fr) ==
  (IF qf THEN 1 ELSE 0) + (IF fd > 0 THEN 1 ELSE 0)
    + (IF fc > 0 THEN 1 ELSE 0) + (IF fr > 0 THEN 1 ELSE 0)

\* One call of ensureJailSandbox, whole, with params drawn from P.
EnsureOf(P) ==
  /\ calls < MaxCalls
  /\ \E p \in P, qf \in BOOLEAN :
       /\ faulted + FaultCount(qf, 0, 0, 0) <= MaxFaults
       /\ \E fd \in 0..ensureJailSandbox(Ctx, registry, now, qf, 0, 0, 0, p).nd :
         /\ faulted + FaultCount(qf, fd, 0, 0) <= MaxFaults
         /\ \E fc \in 0..ensureJailSandbox(Ctx, registry, now, qf, fd, 0, 0, p).nc :
           /\ faulted + FaultCount(qf, fd, fc, 0) <= MaxFaults
           /\ \E fr \in 0..ensureJailSandbox(Ctx, registry, now, qf, fd, fc, 0, p).nr :
             \E r \in { ensureJailSandbox(Ctx, registry, now, qf, fd, fc, fr, p) } :
                 /\ faulted + FaultCount(qf, fd, fc, fr) <= MaxFaults
                 /\ faulted' = faulted + FaultCount(qf, fd, fc, fr)
                 /\ jails' = r.c.jails
                 /\ datasets' = r.c.datasets
                 /\ mounts' = r.c.mounts
                 /\ rules' = r.c.rules
                 /\ registry' = r.reg
                 /\ last' = [op |-> "ensure",
                             name |-> JailNameOf(p.cfg.scope, p.sessionKey,
                                                 p.cfg.jail.jailPrefix),
                             params |-> p,
                             faults |-> [q |-> qf, d |-> fd, c |-> fc, r |-> fr],
                             now |-> now,
                             pre |-> [host |-> Host, registry |-> registry],
                             ops |-> r.c.ops, err |-> r.err, val |-> r.val,
                             hint |-> r.hint, prev |-> Summary(last)]
  /\ calls' = calls + 1
  /\ UNCHANGED now
  /\ UNCHANGED aux

Ensure == EnsureOf(EnsureParams)

\* One call of destroyJailSandbox, whole, for a name of Names with a
\* configuration of Cfgs.
DestroyOf(Names, Cfgs) ==
  /\ calls < MaxCalls
  /\ \E name \in Names, cfg \in Cfgs :
       \E f \in 0..destroyJailSandbox(Ctx, "destroy", 0, name, cfg).c.n :
         \E r \in { destroyJailSandbox(Ctx, "destroy", f, name, cfg) } :
             /\ faulted + FaultCount(FALSE, f, 0, 0) <= MaxFaults
             /\ faulted' = faulted + FaultCount(FALSE, f, 0, 0)
             /\ jails' = r.c.jails
             /\ datasets' = r.c.datasets
             /\ mounts' = r.c.mounts
             /\ rules' = r.c.rules
             /\ last' = [op |-> "destroy", name |-> name,
                         params |-> [NoParams EXCEPT !.cfg.jail = cfg],
                         faults |-> [q |-> FALSE, d |-> f, c |-> 0, r |-> 0],
                         now |-> now,
                         pre |-> [host |-> Host, registry |-> registry],
                         ops |-> r.c.ops, err |-> r.err, val |-> << >>,
                         hint |-> FALSE, prev |-> Summary(last)]
  /\ calls' = calls + 1
  /\ UNCHANGED << registry, now >>
  /\ UNCHANGED aux

Destroy == DestroyOf(UnitNames, {JailA})

Next == Tick \/ Ensure \/ Destroy

Spec == Init /\ [][Next]_vars

\* ------------------------------------------------------------------------
\* Unit names: the name computation of ensureJailSandbox on its inputs
\* ------------------------------------------------------------------------

\* n times the character ch
Rep(ch, n) == [i \in 1..n |-> ch]

ScopeKinds == { "session", "agent", "shared" }

\* Session / agent identifiers: short ones, one with a character outside
\* the identifier set, and long ones that differ in their last character.
NamingKeys ==
  { << "s", "1" >>, << "S", "2" >>, << "a", ":", "b" >>,
    Rep("s", MaxKeyLen - 2),
    Rep("s", MaxKeyLen - 1) \o << "1" >>,
    Rep("s", MaxKeyLen - 1) \o << "2" >> }

NamingPrefixes == { << "a", "-" >>, << "b", "@" >>, Rep("p", MaxPrefixLen) }

NotNamed == << "?" >>

\* Two calls of one scope kind and prefix, each with its key; names[i] is
\* the unit name computed for keys[i], again the name computed for keys[1]
\* a second time.
InitNaming ==
  /\ Fresh
  /\ procs = << >>
  /\ execs = << >>
  /\ lists = << >>
  /\ naming \in [ scope : ScopeKinds, prefix : NamingPrefixes,
                  keys : NamingKeys \X NamingKeys,
                  names : { << NotNamed, NotNamed >> }, again : { NotNamed } ]

\* The jail name of a call is computed.
ComputeName ==
  /\ \E i \in 1..2 :
       /\ naming.names[i] = NotNamed
       /\ naming' = [naming EXCEPT !.names[i] =
                       JailNameOf(naming.scope, naming.keys[i], naming.prefix)]
  /\ UNCHANGED << jails, datasets, mounts, rules, registry, callVars, procs, execs, lists >>

\* A later call with the inputs of the first computes its jail name.
ComputeNameAgain ==
  /\ naming.names[1] # NotNamed
  /\ naming.again = NotNamed
  /\ naming' = [naming EXCEPT !.again =
                  JailNameOf(naming.scope, naming.keys[1], naming.prefix)]
  /\ UNCHANGED << jails, datasets, mounts, rules, registry, callVars, procs, execs, lists >>

NextNaming == ComputeName \/ ComputeNameAgain

SpecNaming == InitNaming /\ [][NextNaming]_vars

\* ------------------------------------------------------------------------
\* The same calls with configurations that differ in the clone parent and
\* in the number of resource limits
\* ------------------------------------------------------------------------

\* JailA with another clone parent: the same unit name, another clone.
JailD == [JailA EXCEPT !.cloneParent = << "z", "/", "k" >>]

\* JailA with a second resource limit, a bind mount below the working
\* directory, a name server and a hosts entry: two rctl rules, a mount point
\* nested in another, two files written under the root.
JailE ==
  [JailA EXCEPT !.memoryuse = {9},
                !.dns = << << "9" >> >>,
                !.extraHosts = << << "h" >> >>,
                !.nullfsMounts = << [src |-> HostAgentWorkspace,
                                     dst |-> << "/", "w", "/", "k" >>,
                                     readOnly |-> TRUE] >>]

VariantParams ==
  { Params(<< "s", "1" >>, j, HostWorkspace, "rw") : j \in {JailA, JailD, JailE} }

VariantNames ==
  { JailNameOf(p.cfg.scope, p.sessionKey, p.cfg.jail.jailPrefix) : p \in VariantParams }

NextVariant ==
  Tick \/ EnsureOf(VariantParams) \/ DestroyOf(VariantNames, {JailA, JailD})

SpecVariant == Init /\ [][NextVariant]_vars


\* ------------------------------------------------------------------------
\* Calls in progress at the same time
\*
\* Every await of a call is a step: one tool invocation, or one read or
\* write of the registry file, on the host the calls share.  procs[i] is
\* call i: its arguments, the await it is at (pc), what it does when its
\* teardown ends (ret), its local variables and its tool invocations.
\* ------------------------------------------------------------------------

EnsureCall(p) ==
  [op |-> "ensure", params |-> p, cfg |-> p.cfg.jail,
   name |-> JailNameOf(p.cfg.scope, p.sessionKey, p.cfg.jail.jailPrefix)]

DestroyCall(name, cfg) ==
  [op |-> "destroy", params |-> NoParams, cfg |-> cfg, name |-> name]

QueryCall(name) ==
  [op |-> "query", params |-> NoParams, cfg |-> JailA, name |-> name]

\* A call at its first await.
StartOf(call) ==
  [op |-> call.op, params |-> call.params, cfg |-> call.cfg, name |-> call.name,
   pc |-> CASE call.op = "ensure" -> "e_jls"
            [] call.op = "destroy" -> "d_jls"
            [] OTHER -> "q_jls",
   ret |-> "return", err |-> NoErr, at |-> 0, exists |-> FALSE, hint |-> FALSE,
   snap |-> << >>, root |-> << >>, todo |-> << >>, ops |-> << >>]

\* The context a step of pr runs its tool in.
CtxOf(pr) ==
  [jails |-> jails, datasets |-> datasets, mounts |-> mounts, rules |-> rules,
   ops |-> pr.ops, n |-> 0]

\* The host after the tool ran, and call i with its next await.
Commit(i, c, pr) ==
  /\ jails' = c.jails
  /\ datasets' = c.datasets
  /\ mounts' = c.mounts
  /\ rules' = c.rules
  /\ procs' = [procs EXCEPT ![i] = [pr EXCEPT !.ops = c.ops]]
  /\ UNCHANGED << registry, callVars, naming, execs, lists >>

\* The phase a teardown's invocations are logged under.
TeardownPhase(pr) == IF pr.ret = "rethrow" THEN "rollback" ELSE "destroy"

\* An error leaves the call: outside a try block.
Thrown(pr, err) == [pr EXCEPT !.pc = "failed", !.err = err]

\* An error in the try block of createJail: the catch block tears down, then
\* throws the error again.
Caught(pr, err) == [pr EXCEPT !.pc = "d_jls", !.ret = "rethrow", !.err = err]

\* An error of destroyJailSandbox: swallowed by the .catch of the rollback,
\* thrown to the caller otherwise.
TeardownThrew(pr, err) ==
  IF pr.ret = "rethrow" THEN [pr EXCEPT !.pc = "failed"] ELSE Thrown(pr, err)

\* The await after each stage of createJail; a stage with nothing to do is
\* passed over.  Written last first.
AfterSetup(pr) == [pr EXCEPT !.pc = "u_read"]

AfterRctl(pr) ==
  IF Trim(pr.cfg.setupCommand) # << >> THEN [pr EXCEPT !.pc = "c_jexec"]
  ELSE AfterSetup(pr)

AfterJail(pr) ==
  IF buildRctlRules(pr.name, pr.cfg) # << >>
    THEN [pr EXCEPT !.pc = "c_rctl", !.todo = buildRctlRules(pr.name, pr.cfg)]
    ELSE AfterRctl(pr)

AfterNullfs(pr) == [pr EXCEPT !.pc = "c_jail"]

AfterWorkspace(pr) ==
  IF pr.cfg.nullfsMounts # << >>
    THEN [pr EXCEPT !.pc = "c_mount_nullfs", !.todo = pr.cfg.nullfsMounts]
    ELSE AfterNullfs(pr)

AfterTmpfs(pr) ==
  IF pr.params.cfg.workspaceAccess # "none" THEN [pr EXCEPT !.pc = "c_mount_ws"]
  ELSE AfterWorkspace(pr)

AfterDevfs(pr) ==
  IF pr.cfg.tmpfs # << >>
    THEN [pr EXCEPT !.pc = "c_mount_tmpfs", !.todo = pr.cfg.tmpfs]
    ELSE AfterTmpfs(pr)

\* createJail is entered.
StartCreate(pr) == [pr EXCEPT !.pc = "c_zfs_list", !.ret = "return"]

\* destroyJailSandbox returns: to the caller of a destroy, into createJail
\* after a drift, or to the throw of the catch block.
EndTeardown(pr) ==
  CASE pr.ret = "create"  -> StartCreate(pr)
    [] pr.ret = "rethrow" -> [pr EXCEPT !.pc = "failed"]
    [] OTHER              -> [pr EXCEPT !.pc = "done"]

\* --- jailContainerState, called on its own ---

QueryState(i) ==
  /\ procs[i].pc = "q_jls"
  /\ \E r \in { jailContainerState(CtxOf(procs[i]), "query", 0, procs[i].name) } :
       Commit(i, r.c, [procs[i] EXCEPT !.pc = "done", !.exists = r.exists])

\* --- ensureJailSandbox ---

\* let state = await jailContainerState(jailName)
EnsureQuery(i) ==
  /\ procs[i].pc = "e_jls"
  /\ \E r \in { jailContainerState(CtxOf(procs[i]), "query", 0, procs[i].name) } :
       Commit(i, r.c,
              IF r.exists
                THEN [procs[i] EXCEPT !.pc = "e_read", !.exists = TRUE, !.at = now]
                ELSE [StartCreate(procs[i]) EXCEPT !.at = now])

ExpectedHash(params) ==
  computeSandboxConfigHash(
    [docker |-> params.cfg.jail, workspaceAccess |-> params.cfg.workspaceAccess,
     workspaceDir |-> params.workspaceDir,
     agentWorkspaceDir |-> params.agentWorkspaceDir])

\* const registry = await readRegistry(), and the drift decision on it
EnsureReadRegistry(i) ==
  /\ procs[i].pc = "e_read"
  /\ \E reg \in { readRegistry(registry) } :
       \E drift \in { HashMismatch(reg, procs[i].name, ExpectedHash(procs[i].params)) },
          hot \in { IsHot(TRUE, reg, procs[i].name, procs[i].at) } :
         procs' = [procs EXCEPT ![i] =
                     IF drift /\ ~hot
                       THEN [@ EXCEPT !.pc = "d_jls", !.ret = "create"]
                       ELSE [@ EXCEPT !.pc = "u_read", !.hint = drift]]
  /\ UNCHANGED << jails, datasets, mounts, rules, registry, callVars, naming, execs, lists >>

\* The entry ensureJailSandbox hands to updateRegistry.
EntryOf(pr) ==
  [containerName |-> pr.name,
   sessionKey |-> resolveSandboxScopeKey(pr.params.cfg.scope, pr.params.sessionKey),
   createdAtMs |-> pr.at, lastUsedAtMs |-> pr.at,
   image |-> << "z", "f", "s", ":" >> \o snapshotPath(pr.cfg),
   configHash |-> ExpectedHash(pr.params)]

\* updateRegistry, first half: the registry file is read.
RegistryRead(i) ==
  /\ procs[i].pc = "u_read"
  /\ procs' = [procs EXCEPT ![i] = [@ EXCEPT !.pc = "u_write",
                                             !.snap = readRegistry(registry)]]
  /\ UNCHANGED << jails, datasets, mounts, rules, registry, callVars, naming, execs, lists >>

\* updateRegistry, second half: what was read is written back with the
\* entry of the call in it.
RegistryWrite(i) ==
  /\ procs[i].pc = "u_write"
  /\ registry' = updateRegistry(procs[i].snap, EntryOf(procs[i]))
  /\ procs' = [procs EXCEPT ![i] = [@ EXCEPT !.pc = "done"]]
  /\ UNCHANGED << jails, datasets, mounts, rules, callVars, naming, execs, lists >>

\* --- destroyJailSandbox ---

\* const state = await jailContainerState(jailName)
TeardownQuery(i) ==
  /\ procs[i].pc = "d_jls"
  /\ \E r \in { jailContainerState(CtxOf(procs[i]), TeardownPhase(procs[i]), 0,
                                   procs[i].name) } :
       Commit(i, r.c, [procs[i] EXCEPT !.pc = IF r.running THEN "d_jail_r"
                                                           ELSE "d_rctl_r"])

\* jail -r
TeardownJail(i) ==
  /\ procs[i].pc = "d_jail_r"
  /\ Commit(i, JailRemove(CtxOf(procs[i]), TeardownPhase(procs[i]), 0, procs[i].name),
            [procs[i] EXCEPT !.pc = "d_rctl_r"])

\* removeRctlRules
TeardownRules(i) ==
  /\ procs[i].pc = "d_rctl_r"
  /\ Commit(i, removeRctlRules(CtxOf(procs[i]), TeardownPhase(procs[i]), 0,
                               procs[i].name),
            [procs[i] EXCEPT !.pc = "d_zfs_list"])

\* if (await zfsDatasetExists(dataset))
TeardownListClone(i) ==
  /\ procs[i].pc = "d_zfs_list"
  /\ \E r \in { zfsDatasetExists(CtxOf(procs[i]), TeardownPhase(procs[i]), 0,
                                 cloneDataset(procs[i].cfg, procs[i].name)) } :
       Commit(i, r.c, [procs[i] EXCEPT !.pc = IF r.val THEN "d_zfs_get"
                                                       ELSE "d_zfs_list2"])

\* const root = await cloneMountpoint(dataset)
TeardownMountpoint(i) ==
  /\ procs[i].pc = "d_zfs_get"
  /\ \E r \in { cloneMountpoint(CtxOf(procs[i]), TeardownPhase(procs[i]), 0,
                                cloneDataset(procs[i].cfg, procs[i].name)) } :
       Commit(i, r.c,
              IF r.err # NoErr THEN TeardownThrew(procs[i], r.err)
              ELSE [procs[i] EXCEPT !.pc = "d_mount_p", !.root = r.val])

\* unmountAllUnder: mount -p, and the mount points to unmount
TeardownListMounts(i) ==
  /\ procs[i].pc = "d_mount_p"
  /\ \E r \in { MountList(CtxOf(procs[i]), TeardownPhase(procs[i]), 0) } :
       \E mps \in { MountsUnder(r.stdout, procs[i].root) } :
         Commit(i, r.c, [procs[i] EXCEPT !.todo = mps,
                                         !.pc = IF mps = << >> THEN "d_zfs_list2"
                                                ELSE "d_umount"])

\* unmountAllUnder: umount -f of the next mount point
TeardownUmount(i) ==
  /\ procs[i].pc = "d_umount"
  /\ Commit(i, Umount(CtxOf(procs[i]), TeardownPhase(procs[i]), 0,
                      Head(procs[i].todo)),
            [procs[i] EXCEPT !.todo = Tail(@),
                             !.pc = IF Tail(procs[i].todo) = << >> THEN "d_zfs_list2"
                                    ELSE "d_umount"])

\* zfsDestroyClone: if (await zfsDatasetExists(dataset))
TeardownListClone2(i) ==
  /\ procs[i].pc = "d_zfs_list2"
  /\ \E r \in { zfsDatasetExists(CtxOf(procs[i]), TeardownPhase(procs[i]), 0,
                                 cloneDataset(procs[i].cfg, procs[i].name)) } :
       Commit(i, r.c, IF r.val THEN [procs[i] EXCEPT !.pc = "d_zfs_destroy"]
                      ELSE EndTeardown(procs[i]))

\* zfsDestroyClone: zfs destroy -r
TeardownClone(i) ==
  /\ procs[i].pc = "d_zfs_destroy"
  /\ Commit(i, ZfsDestroy(CtxOf(procs[i]), TeardownPhase(procs[i]), 0,
                          cloneDataset(procs[i].cfg, procs[i].name)),
            EndTeardown(procs[i]))

\* --- createJail ---

\* zfsClone: if (await zfsDatasetExists(dataset))
CloneList(i) ==
  /\ procs[i].pc = "c_zfs_list"
  /\ \E r \in { zfsDatasetExists(CtxOf(procs[i]), "create", 0,
                                 cloneDataset(procs[i].cfg, procs[i].name)) } :
       Commit(i, r.c, [procs[i] EXCEPT !.pc = IF r.val THEN "c_zfs_get"
                                                       ELSE "c_zfs_list_parent"])

\* zfsClone: if (!(await zfsDatasetExists(cfg.cloneParent)))
CloneListParent(i) ==
  /\ procs[i].pc = "c_zfs_list_parent"
  /\ \E r \in { zfsDatasetExists(CtxOf(procs[i]), "create", 0,
                                 procs[i].cfg.cloneParent) } :
       Commit(i, r.c, [procs[i] EXCEPT !.pc = IF r.val THEN "c_zfs_clone"
                                                       ELSE "c_zfs_create"])

\* zfsClone: zfs create -p
CloneCreateParent(i) ==
  /\ procs[i].pc = "c_zfs_create"
  /\ \E r \in { ZfsCreate(CtxOf(procs[i]), "create", 0, procs[i].cfg.cloneParent) } :
       Commit(i, r.c, IF r.err # NoErr THEN Thrown(procs[i], r.err)
                      ELSE [procs[i] EXCEPT !.pc = "c_zfs_clone"])

\* zfsClone: zfs clone
CloneCmd(i) ==
  /\ procs[i].pc = "c_zfs_clone"
  /\ \E r \in { ZfsCloneCmd(CtxOf(procs[i]), "create", 0, snapshotPath(procs[i].cfg),
                            procs[i].cfg.cloneParent,
                            cloneDataset(procs[i].cfg, procs[i].name)) } :
       Commit(i, r.c, IF r.err # NoErr THEN Thrown(procs[i], r.err)
                      ELSE [procs[i] EXCEPT !.pc = "c_zfs_get"])

\* zfsClone: return cloneMountpoint(dataset)
CloneMountpoint(i) ==
  /\ procs[i].pc = "c_zfs_get"
  /\ \E r \in { cloneMountpoint(CtxOf(procs[i]), "create", 0,
                                cloneDataset(procs[i].cfg, procs[i].name)) } :
       Commit(i, r.c, IF r.err # NoErr THEN Thrown(procs[i], r.err)
                      ELSE [procs[i] EXCEPT !.pc = "c_mount_list", !.root = r.val])

\* mountDevfs: the devfs list, and whether it includes <root>/dev
DevfsList(i) ==
  /\ procs[i].pc = "c_mount_list"
  /\ \E r \in { MountListDevfs(CtxOf(procs[i]), "create", 0) } :
       Commit(i, r.c,
              IF \E k \in 1..Len(r.stdout) :
                   Includes(r.stdout[k].mp, PathJoin(procs[i].root, << "d", "e", "v" >>))
                THEN AfterDevfs(procs[i])
                ELSE [procs[i] EXCEPT !.pc = "c_mount_devfs"])

\* mountDevfs: mount -t devfs
DevfsMount(i) ==
  /\ procs[i].pc = "c_mount_devfs"
  /\ \E r \in { MountDevfsCmd(CtxOf(procs[i]), "create", 0,
                              PathJoin(procs[i].root, << "d", "e", "v" >>)) } :
       Commit(i, r.c, IF r.err # NoErr THEN Caught(procs[i], r.err)
                      ELSE AfterDevfs(procs[i]))

\* for (const entry of cfg.tmpfs) await mountTmpfs(...)
TmpfsMount(i) ==
  /\ procs[i].pc = "c_mount_tmpfs"
  /\ \E r \in { mountTmpfs(CtxOf(procs[i]), "create", 0,
                           PathJoin(procs[i].root, Head(procs[i].todo))) } :
       Commit(i, r.c,
              IF r.err # NoErr THEN Caught(procs[i], r.err)
              ELSE IF Tail(procs[i].todo) = << >> THEN AfterTmpfs(procs[i])
              ELSE [procs[i] EXCEPT !.todo = Tail(@)])

\* await mountNullfs(workspaceDir, wsInsideJail, wsReadOnly)
WorkspaceMount(i) ==
  /\ procs[i].pc = "c_mount_ws"
  /\ \E r \in { mountNullfs(CtxOf(procs[i]), "create", 0, procs[i].params.workspaceDir,
                            PathJoin(procs[i].root, procs[i].cfg.workdir),
                            /\ procs[i].params.cfg.workspaceAccess = "ro"
                            /\ procs[i].params.workspaceDir
                                 = procs[i].params.agentWorkspaceDir) } :
       Commit(i, r.c,
              IF r.err # NoErr THEN Caught(procs[i], r.err)
              ELSE IF procs[i].params.workspaceDir # procs[i].params.agentWorkspaceDir
                THEN [procs[i] EXCEPT !.pc = "c_mount_agent"]
              ELSE AfterWorkspace(procs[i]))

\* await mountNullfs(agentWorkspaceDir, agentMount, workspaceAccess === "ro")
AgentMount(i) ==
  /\ procs[i].pc = "c_mount_agent"
  /\ \E r \in { mountNullfs(CtxOf(procs[i]), "create", 0,
                            procs[i].params.agentWorkspaceDir,
                            PathJoin(procs[i].root, SANDBOX_AGENT_WORKSPACE_MOUNT),
                            procs[i].params.cfg.workspaceAccess = "ro") } :
       Commit(i, r.c, IF r.err # NoErr THEN Caught(procs[i], r.err)
                      ELSE AfterWorkspace(procs[i]))

\* for (const m of cfg.nullfsMounts) await mountNullfs(...)
NullfsMount(i) ==
  /\ procs[i].pc = "c_mount_nullfs"
  /\ \E r \in { mountNullfs(CtxOf(procs[i]), "create", 0, Head(procs[i].todo).src,
                            PathJoin(procs[i].root, Head(procs[i].todo).dst),
                            Head(procs[i].todo).readOnly) } :
       Commit(i, r.c,
              IF r.err # NoErr THEN Caught(procs[i], r.err)
              ELSE IF Tail(procs[i].todo) = << >> THEN AfterNullfs(procs[i])
              ELSE [procs[i] EXCEPT !.todo = Tail(@)])

\* jail -c, after the files under <root>/etc are written
JailStart(i) ==
  /\ procs[i].pc = "c_jail"
  /\ \E r \in { JailCreate(WriteEtc(CtxOf(procs[i]), "create", procs[i].root,
                                    procs[i].cfg),
                           "create", 0, procs[i].name, procs[i].root,
                           [cfg |-> procs[i].cfg,
                            workspaceDir |-> procs[i].params.workspaceDir,
                            workspaceAccess |-> procs[i].params.cfg.workspaceAccess,
                            agentWorkspaceDir |-> procs[i].params.agentWorkspaceDir]) } :
       Commit(i, r.c, IF r.err # NoErr THEN Caught(procs[i], r.err)
                      ELSE AfterJail(procs[i]))

\* applyRctlRules: rctl -a of the next rule
RctlAdd(i) ==
  /\ procs[i].pc = "c_rctl"
  /\ \E r \in { applyRctlRules(CtxOf(procs[i]), "create", 0,
                               << Head(procs[i].todo) >>) } :
       Commit(i, r.c,
              IF r.err # NoErr THEN Caught(procs[i], r.err)
              ELSE IF Tail(procs[i].todo) = << >> THEN AfterRctl(procs[i])
              ELSE [procs[i] EXCEPT !.todo = Tail(@)])

\* await jailExec(jailName, ["sh", "-c", cfg.setupCommand])
SetupCommand(i) ==
  /\ procs[i].pc = "c_jexec"
  /\ \E r \in { jailExec(CtxOf(procs[i]), "create", 0, procs[i].name, FALSE) } :
       Commit(i, r.c, IF r.err # NoErr THEN Caught(procs[i], r.err)
                      ELSE AfterSetup(procs[i]))

\* --- Calls and hosts ---

ConcParams ==
  { Params(<< "s", "1" >>, JailA, HostWorkspace, "rw"),
    Params(<< "S", "2" >>, JailE, HostAgentWorkspace, "ro") }

\* The calls of the first caller: on the unit of session s1.
FirstCalls ==
  { EnsureCall(Params(<< "s", "1" >>, JailA, HostWorkspace, "rw")),
    DestroyCall(<< "a", "-", "s", "1" >>, JailA) }

\* The calls of the second caller: on that unit or on the unit of session S2.
SecondCalls ==
  { EnsureCall(p) : p \in ConcParams }
    \cup { DestroyCall(EnsureCall(p).name, p.cfg.jail) : p \in ConcParams }
    \cup { QueryCall(<< "a", "-", "s", "1" >>) }

FreshHost ==
  [jails |-> << >>,
   datasets |-> [d \in { j.baseDataset : j \in JailCfgs } |-> [origin |-> << >>]],
   mounts |-> << >>, rules |-> {}]

\* The host and the registry after a whole ensureJailSandbox(p) on pre.
Provisioned(pre, p) ==
  LET Ensured(r) ==
        [host |-> [jails |-> r.c.jails, datasets |-> r.c.datasets,
                   mounts |-> r.c.mounts, rules |-> r.c.rules],
         registry |-> r.reg]
  IN  Ensured(ensureJailSandbox(
                [jails |-> pre.host.jails, datasets |-> pre.host.datasets,
                 mounts |-> pre.host.mounts, rules |-> pre.host.rules,
                 ops |-> << >>, n |-> 0],
                pre.registry, 0, FALSE, 0, 0, 0, p))

\* The hosts calls start on: fresh, or with units of earlier calls.
ConcHosts ==
  { [host |-> FreshHost, registry |-> << >>] }
    \cup { Provisioned([host |-> FreshHost, registry |-> << >>], p) : p \in ConcParams }
    \cup { Provisioned(Provisioned([host |-> FreshHost, registry |-> << >>],
                                    Params(<< "s", "1" >>, JailA, HostWorkspace, "rw")),
                        Params(<< "S", "2" >>, JailE, HostAgentWorkspace, "ro")) }

\* Two calls are started on one host.
InitConc ==
  /\ \E pre \in ConcHosts :
       /\ jails = pre.host.jails
       /\ datasets = pre.host.datasets
       /\ mounts = pre.host.mounts
       /\ rules = pre.host.rules
       /\ registry = pre.registry
       /\ last = [op |-> "none", name |-> << >>, params |-> NoParams,
                  faults |-> NoFaults, now |-> 0, pre |-> pre,
                  ops |-> << >>, err |-> NoErr, val |-> << >>, hint |-> FALSE,
                  prev |-> [op |-> "none", name |-> << >>, params |-> NoParams,
                            err |-> NoErr, val |-> << >>, hint |-> FALSE]]
  /\ now = 0
  /\ calls = 0
  /\ faulted = 0
  /\ procs \in { << StartOf(a), StartOf(b) >> : a \in FirstCalls, b \in SecondCalls }
  /\ naming = << >>
  /\ execs = << >>
  /\ lists = << >>

NextConc ==
  \/ \E i \in DOMAIN procs : QueryState(i)
  \/ \E i \in DOMAIN procs : EnsureQuery(i)
  \/ \E i \in DOMAIN procs : EnsureReadRegistry(i)
  \/ \E i \in DOMAIN procs : RegistryRead(i)
  \/ \E i \in DOMAIN procs : RegistryWrite(i)
  \/ \E i \in DOMAIN procs : TeardownQuery(i)
  \/ \E i \in DOMAIN procs : TeardownJail(i)
  \/ \E i \in DOMAIN procs : TeardownRules(i)
  \/ \E i \in DOMAIN procs : TeardownListClone(i)
  \/ \E i \in DOMAIN procs : TeardownMountpoint(i)
  \/ \E i \in DOMAIN procs : TeardownListMounts(i)
  \/ \E i \in DOMAIN procs : TeardownUmount(i)
  \/ \E i \in DOMAIN procs : TeardownListClone2(i)
  \/ \E i \in DOMAIN procs : TeardownClone(i)
  \/ \E i \in DOMAIN procs : CloneList(i)
  \/ \E i \in DOMAIN procs : CloneListParent(i)
  \/ \E i \in DOMAIN procs : CloneCreateParent(i)
  \/ \E i \in DOMAIN procs : CloneCmd(i)
  \/ \E i \in DOMAIN procs : CloneMountpoint(i)
  \/ \E i \in DOMAIN procs : DevfsList(i)
  \/ \E i \in DOMAIN procs : DevfsMount(i)
  \/ \E i \in DOMAIN procs : TmpfsMount(i)
  \/ \E i \in DOMAIN procs : WorkspaceMount(i)
  \/ \E i \in DOMAIN procs : AgentMount(i)
  \/ \E i \in DOMAIN procs : NullfsMount(i)
  \/ \E i \in DOMAIN procs : JailStart(i)
  \/ \E i \in DOMAIN procs : RctlAdd(i)
  \/ \E i \in DOMAIN procs : SetupCommand(i)

SpecConc == InitConc /\ [][NextConc]_vars


\* ------------------------------------------------------------------------
\* jailExec: what a call returns or throws for each way jexec can end
\* ------------------------------------------------------------------------

\* A field that is not there.
Undefined == << "undefined" >>

\* The ways the jexec child can end: it exits with a status, it is killed
\* (the time-out), or it cannot be spawned.
ExecOutcomes ==
  [kind : {"exit"}, status : {0, 1, 2, 127}, stdout : {<< "o" >>}, stderr : {<< >>, << "e" >>}]
    \cup [kind : {"killed"}, status : {0}, stdout : {<< "o" >>}, stderr : {<< >>}]
    \cup [kind : {"spawn"}, status : {0}, stdout : {Undefined}, stderr : {Undefined}]

\* execFile, promisified: resolves with the output on exit status 0,
\* rejects otherwise with an error whose code is the exit status (a number),
\* null for a killed child, or an error name for a failed spawn.
ExecFile(outcome) ==
  IF outcome.kind = "exit" /\ outcome.status = 0
    THEN [resolved |-> TRUE, stdout |-> outcome.stdout, stderr |-> outcome.stderr,
          code |-> [type |-> "undefined", val |-> 0]]
    ELSE [resolved |-> FALSE, stdout |-> outcome.stdout, stderr |-> outcome.stderr,
          code |-> CASE outcome.kind = "exit"   -> [type |-> "number", val |-> outcome.status]
                     [] outcome.kind = "killed" -> [type |-> "object", val |-> 0]
                     [] OTHER                   -> [type |-> "string", val |-> 0]]

\* e.x ?? ""
OrEmpty(x) == IF x = Undefined THEN << >> ELSE x

NoResult == [threw |-> FALSE, code |-> 0, stdout |-> << >>, stderr |-> << >>,
             msg |-> << >>]

\* The catch block with allowFailure not looked at.
JailExecReturn_AlwaysThrows(e, allowFailure) ==
  IF e.resolved
    THEN [NoResult EXCEPT !.stdout = e.stdout, !.stderr = e.stderr]
    ELSE [NoResult EXCEPT !.threw = TRUE,
                          !.code = IF e.code.type = "number" THEN e.code.val ELSE 1,
                          !.msg = IF Trim(OrEmpty(e.stderr)) # << >>
                                    THEN Trim(OrEmpty(e.stderr))
                                    ELSE << "f", "a", "i", "l", "e", "d" >>]

\* The try / catch of jailExec around execFile: e is what execFile gave.
\* A thrown Error carries msg; code is then the exit code named in it.
JailExecReturn(e, allowFailure) ==
  IF e.resolved
    THEN [NoResult EXCEPT !.stdout = e.stdout, !.stderr = e.stderr]
  ELSE IF allowFailure
    THEN [NoResult EXCEPT !.code = IF e.code.type = "number" THEN e.code.val ELSE 1,
                          !.stdout = OrEmpty(e.stdout), !.stderr = OrEmpty(e.stderr)]
    ELSE [NoResult EXCEPT !.threw = TRUE,
                          !.code = IF e.code.type = "number" THEN e.code.val ELSE 1,
                          !.msg = IF Trim(OrEmpty(e.stderr)) # << >>
                                    THEN Trim(OrEmpty(e.stderr))
                                    ELSE << "f", "a", "i", "l", "e", "d" >>]

InitExec ==
  /\ Fresh
  /\ procs = << >>
  /\ naming = << >>
  /\ execs = << >>
  /\ lists = << >>

\* One call of jailExec: the child ends in one of the ways, the caller has
\* set allowFailure or not.
JailExecCall ==
  /\ Len(execs) < MaxExecs
  /\ \E outcome \in ExecOutcomes, allowFailure \in BOOLEAN :
       execs' = Append(execs, [outcome |-> outcome, allowFailure |-> allowFailure,
                               result |-> JailExecReturn(ExecFile(outcome),
                                                         allowFailure)])
  /\ UNCHANGED << jails, datasets, mounts, rules, registry, callVars, procs, naming,
                  lists >>

NextExec == JailExecCall

SpecExec == InitExec /\ [][NextExec]_vars

\* ------------------------------------------------------------------------
\* The same calls with every workspace access mode, the agent workspace
\* being the primary one or another directory
\* ------------------------------------------------------------------------

WorkspaceParams ==
  { Params(<< "s", "1" >>, JailA, agentDir, access) :
      agentDir \in {HostWorkspace, HostAgentWorkspace},
      access \in {"none", "ro", "rw"} }

WorkspaceNames ==
  { JailNameOf(p.cfg.scope, p.sessionKey, p.cfg.jail.jailPrefix) : p \in WorkspaceParams }

NextWorkspace == EnsureOf(WorkspaceParams) \/ DestroyOf(WorkspaceNames, {JailA})

SpecWorkspace == Init /\ [][NextWorkspace]_vars

\* ------------------------------------------------------------------------
\* Three ensure calls for one session, the desired configuration changing
\* between them, with time passing and no tool failing
\* ------------------------------------------------------------------------

DeferParams ==
  { Params(<< "s", "1" >>, j, HostWorkspace, "rw") : j \in {JailA, JailB, JailE} }

\* Time passes between the calls.
Wait ==
  /\ calls < MaxDeferCalls
  /\ \E d \in TickSteps : now + d <= MaxNow /\ now' = now + d
  /\ UNCHANGED << jails, datasets, mounts, rules, registry, calls, faulted, last >>
  /\ UNCHANGED aux

\* One call of ensureJailSandbox, whole, every tool succeeding.
EnsureDefer ==
  /\ calls < MaxDeferCalls
  /\ \E p \in DeferParams :
       \E r \in { ensureJailSandbox(Ctx, registry, now, FALSE, 0, 0, 0, p) } :
         /\ jails' = r.c.jails
         /\ datasets' = r.c.datasets
         /\ mounts' = r.c.mounts
         /\ rules' = r.c.rules
         /\ registry' = r.reg
         /\ last' = [op |-> "ensure",
                     name |-> JailNameOf(p.cfg.scope, p.sessionKey,
                                         p.cfg.jail.jailPrefix),
                     params |-> p, faults |-> NoFaults, now |-> now,
                     pre |-> [host |-> Host, registry |-> registry],
                     ops |-> r.c.ops, err |-> r.err, val |-> r.val,
                     hint |-> r.hint, prev |-> Summary(last)]
  /\ calls' = calls + 1
  /\ UNCHANGED << now, faulted >>
  /\ UNCHANGED aux

NextDefer == Wait \/ EnsureDefer

SpecDefer == Init /\ [][NextDefer]_vars

\* ------------------------------------------------------------------------
\* Two ensure calls that build their units at the same time on a fresh
\* host, where zfs create -p of the clone parent may exit non-zero
\* ------------------------------------------------------------------------

\* zfsClone: zfs create -p, which succeeds or fails.  A call that throws
\* here keeps in exists what a listing of the clone parent would answer at
\* that moment.
CloneCreateParentOrFail(i) ==
  /\ procs[i].pc = "c_zfs_create"
  /\ \E f \in {0, 1} :
       \E r \in { ZfsCreate(CtxOf(procs[i]), "create", f, procs[i].cfg.cloneParent) } :
         Commit(i, r.c,
                IF r.err # NoErr
                  THEN [Thrown(procs[i], r.err) EXCEPT
                          !.exists = procs[i].cfg.cloneParent \in DOMAIN datasets]
                  ELSE [procs[i] EXCEPT !.pc = "c_zfs_clone"])

InitRace ==
  /\ jails = FreshHost.jails
  /\ datasets = FreshHost.datasets
  /\ mounts = FreshHost.mounts
  /\ rules = FreshHost.rules
  /\ registry = << >>
  /\ last = [op |-> "none", name |-> << >>, params |-> NoParams,
             faults |-> NoFaults, now |-> 0,
             pre |-> [host |-> FreshHost, registry |-> << >>],
             ops |-> << >>, err |-> NoErr, val |-> << >>, hint |-> FALSE,
             prev |-> [op |-> "none", name |-> << >>, params |-> NoParams,
                       err |-> NoErr, val |-> << >>, hint |-> FALSE]]
  /\ now = 0
  /\ calls = 0
  /\ faulted = 0
  /\ procs \in { << StartOf(EnsureCall(pq[1])), StartOf(EnsureCall(pq[2])) >> :
                    pq \in { x \in ConcParams \X ConcParams : x[1] # x[2] } }
  /\ naming = << >>
  /\ execs = << >>
  /\ lists = << >>

NextRace ==
  \/ \E i \in DOMAIN procs : EnsureQuery(i)
  \/ \E i \in DOMAIN procs : CloneList(i)
  \/ \E i \in DOMAIN procs : CloneListParent(i)
  \/ \E i \in DOMAIN procs : CloneCreateParentOrFail(i)
  \/ \E i \in DOMAIN procs : CloneCmd(i)
  \/ \E i \in DOMAIN procs : CloneMountpoint(i)
  \/ \E i \in DOMAIN procs : DevfsList(i)
  \/ \E i \in DOMAIN procs : DevfsMount(i)
  \/ \E i \in DOMAIN procs : TmpfsMount(i)
  \/ \E i \in DOMAIN procs : WorkspaceMount(i)
  \/ \E i \in DOMAIN procs : AgentMount(i)
  \/ \E i \in DOMAIN procs : NullfsMount(i)
  \/ \E i \in DOMAIN procs : JailStart(i)
  \/ \E i \in DOMAIN procs : RctlAdd(i)
  \/ \E i \in DOMAIN procs : SetupCommand(i)
  \/ \E i \in DOMAIN procs : RegistryRead(i)
  \/ \E i \in DOMAIN procs : RegistryWrite(i)

SpecRace == InitRace /\ [][NextRace]_vars

\* ------------------------------------------------------------------------
\* Rule lists: buildRctlRules on unit names and limit bundles
\* ------------------------------------------------------------------------

\* Limit bundles: every bound unset, zero or negative, or positive, and
\* extra rules with and without {name}, blank, and with spaces around.
RuleCfgs ==
  { [JailA EXCEPT !.maxProc = b[1], !.memoryuse = b[2], !.vmemoryuse = b[3],
                  !.pcpu = b[4], !.openfiles = b[5], !.coredumpsize = b[6],
                  !.extraRctlRules = b[7]] :
      b \in { {}, {0}, {64} } \X { {}, {9} } \X { {}, {-1}, {7} } \X { {}, {50} }
              \X { {}, {0}, {8} } \X { {}, {-1}, {0}, {5} }
              \X { << >>,
                   << << "j", "a", "i", "l", ":", "{", "n", "a", "m", "e", "}", ":",
                         "x", ":", "d", "e", "n", "y", "=", "1" >>,
                      << " ", " " >>,
                      << " ", "u", ":", "{", "n", "a", "m", "e", "}", " " >> >> } }

RuleNames == { << "a", "-", "s", "1" >>, << "b" >> }

NotBuilt == << << "?" >> >>

InitRules ==
  /\ Fresh
  /\ procs = << >>
  /\ naming = << >>
  /\ execs = << >>
  /\ lists \in [ name : RuleNames, cfg : RuleCfgs, rules : {NotBuilt} ]

\* The rule list of a unit name and a limit bundle is built.
BuildRules ==
  /\ lists.rules = NotBuilt
  /\ lists' = [lists EXCEPT !.rules = buildRctlRules(lists.name, lists.cfg)]
  /\ UNCHANGED << jails, datasets, mounts, rules, registry, callVars, procs, naming,
                  execs >>

NextRules == BuildRules

SpecRules == InitRules /\ [][NextRules]_vars

\* ------------------------------------------------------------------------
\* Argument lists: buildJailCreateArgs on unit names, roots and configurations
\* ------------------------------------------------------------------------

\* The extra parameters of a configuration that are not blank, each without
\* the spaces around it.
RECURSIVE TrimmedParams(_)
TrimmedParams(params) ==
  IF params = << >> THEN << >>
  ELSE (IF Trim(Head(params)) = << >> THEN << >> ELSE << Trim(Head(params)) >>)
         \o TrimmedParams(Tail(params))

\* The arguments of jail -c for a unit.
buildJailCreateArgs(jailName, jailRoot, cfg) ==
  << << "-", "c" >>,
     << "n", "a", "m", "e", "=" >> \o jailName,
     << "p", "a", "t", "h", "=" >> \o jailRoot,
     << "p", "e", "r", "s", "i", "s", "t" >>,
     << "h", "o", "s", "t", ".", "h", "o", "s", "t", "n", "a", "m", "e", "=" >>
       \o jailName >>
    \o (IF cfg.network = "none"
          THEN << << "i", "p", "4", "=", "d", "i", "s", "a", "b", "l", "e" >>,
                  << "i", "p", "6", "=", "d", "i", "s", "a", "b", "l", "e" >> >>
        ELSE IF cfg.network = "vnet" THEN << << "v", "n", "e", "t" >> >>
        ELSE << >>)
    \o (IF cfg.readOnlyRoot
          THEN << << "a", "l", "l", "o", "w", ".", "m", "o", "u", "n", "t", "=", "0" >>,
                  << "e", "n", "f", "o", "r", "c", "e", "_", "s", "t", "a", "t", "f", "s",
                     "=", "2" >> >>
          ELSE << << "a", "l", "l", "o", "w", ".", "m", "o", "u", "n", "t", "=", "1" >>,
                  << "e", "n", "f", "o", "r", "c", "e", "_", "s", "t", "a", "t", "f", "s",
                     "=", "1" >> >>)
    \o << << "c", "h", "i", "l", "d", "r", "e", "n", ".", "m", "a", "x", "=", "0" >>,
          << "s", "e", "c", "u", "r", "e", "l", "e", "v", "e", "l", "=", "3" >> >>
    \o TrimmedParams(cfg.jailParams)

\* Configurations: every network mode, both root modes, and extra
\* parameters that are plain, blank, and with spaces around.
ArgCfgs ==
  { [JailA EXCEPT !.network = b[1], !.readOnlyRoot = b[2], !.jailParams = b[3]] :
      b \in { "none", "vnet", "inherit" } \X BOOLEAN
              \X { << >>,
                   << << "a", "l", "l", "o", "w", ".", "x" >> >>,
                   << << " ", " " >>, << "l", "=", "1" >> >>,
                   << << "l", "=", "1" >>, << " ", "a", "l", "l", "o", "w", ".", "x",
                                              " " >> >> } }

ArgRoots == { << "/", "z", "/", "j", "/", "b" >>, << "/", "m" >> }

InitArgs ==
  /\ Fresh
  /\ procs = << >>
  /\ naming = << >>
  /\ execs = << >>
  /\ lists \in [ name : RuleNames, root : ArgRoots, cfg : ArgCfgs, args : {NotBuilt} ]

\* The argument list of a unit name, a root and a configuration is built.
BuildArgs ==
  /\ lists.args = NotBuilt
  /\ lists' = [lists EXCEPT
                 !.args = buildJailCreateArgs(lists.name, lists.root, lists.cfg)]
  /\ UNCHANGED << jails, datasets, mounts, rules, registry, callVars, procs, naming,
                  execs >>

NextArgs == BuildArgs

SpecArgs == InitArgs /\ [][NextArgs]_vars

\* ------------------------------------------------------------------------
\* State queries between whole calls
\* ------------------------------------------------------------------------

\* The host and the registry after a whole destroyJailSandbox of the unit
\* of p on pre: the registry keeps its entry.
Destroyed(pre, p) ==
  LET Gone(r) ==
        [host |-> [jails |-> r.c.jails, datasets |-> r.c.datasets,
                   mounts |-> r.c.mounts, rules |-> r.c.rules],
         registry |-> pre.registry]
  IN  Gone(destroyJailSandbox(
             [jails |-> pre.host.jails, datasets |-> pre.host.datasets,
              mounts |-> pre.host.mounts, rules |-> pre.host.rules,
              ops |-> << >>, n |-> 0],
             "destroy", 0,
             JailNameOf(p.cfg.scope, p.sessionKey, p.cfg.jail.jailPrefix), p.cfg.jail))

\* The hosts queries start on: those of ConcHosts, and those where a unit
\* of the registry was destroyed.
QueryHosts ==
  ConcHosts \cup { Destroyed(pre, p) : pre \in ConcHosts \ { [host |-> FreshHost,
                                                               registry |-> << >>] },
                                       p \in ConcParams }

QueryNames ==
  { JailNameOf(p.cfg.scope, p.sessionKey, p.cfg.jail.jailPrefix) : p \in ConcParams }

InitQuery ==
  /\ \E pre \in QueryHosts :
       /\ jails = pre.host.jails
       /\ datasets = pre.host.datasets
       /\ mounts = pre.host.mounts
       /\ rules = pre.host.rules
       /\ registry = pre.registry
       /\ last = [op |-> "none", name |-> << >>, params |-> NoParams,
                  faults |-> NoFaults, now |-> 0, pre |-> pre,
                  ops |-> << >>, err |-> NoErr, val |-> << >>, hint |-> FALSE,
                  prev |-> [op |-> "none", name |-> << >>, params |-> NoParams,
                            err |-> NoErr, val |-> << >>, hint |-> FALSE]]
  /\ now = 0
  /\ calls = 0
  /\ faulted = 0
  /\ procs = << >>
  /\ naming = << >>
  /\ execs = << >>
  /\ lists = << >>

\* One call of jailContainerState, whole, for a name of Names; the query
\* may fail.
QueryOf(Names) ==
  /\ calls < MaxCalls
  /\ \E name \in Names, f \in 0..1 :
       \E r \in { jailContainerState(Ctx, "query", f, name) } :
         /\ faulted + FaultCount(f > 0, 0, 0, 0) <= MaxFaults
         /\ faulted' = faulted + FaultCount(f > 0, 0, 0, 0)
         /\ jails' = r.c.jails
         /\ datasets' = r.c.datasets
         /\ mounts' = r.c.mounts
         /\ rules' = r.c.rules
         /\ last' = [op |-> "query", name |-> name, params |-> NoParams,
                     faults |-> [q |-> f > 0, d |-> 0, c |-> 0, r |-> 0],
                     now |-> now,
                     pre |-> [host |-> Host, registry |-> registry],
                     ops |-> r.c.ops, err |-> NoErr,
                     val |-> [exists |-> r.exists, running |-> r.running],
                     hint |-> FALSE, prev |-> Summary(last)]
  /\ calls' = calls + 1
  /\ UNCHANGED << registry, now >>
  /\ UNCHANGED aux

NextQuery ==
  \/ QueryOf(QueryNames)
  \/ DestroyOf(QueryNames, {JailA})

SpecQuery == InitQuery /\ [][NextQuery]_vars

\* ------------------------------------------------------------------------
\* An ensure call and a command running in the unit at the same time
\* ------------------------------------------------------------------------

\* execFile("jexec", ..., { timeout: opts?.timeoutMs ?? 300_000 })
EXEC_TIMEOUT_MS == 300000

ExecCall(name) ==
  [op |-> "exec", params |-> NoParams, cfg |-> JailA, name |-> name]

\* A jailExec call before its jexec is spawned.
StartExec(call) == [StartOf(call) EXCEPT !.pc = "x_jexec"]

\* execFile("jexec", args): the command starts in the unit when the unit is
\* live; jexec exits at once otherwise.
ExecSpawn(i) ==
  /\ procs[i].pc = "x_jexec"
  /\ procs' = [procs EXCEPT ![i] =
                 IF procs[i].name \in DOMAIN jails
                   THEN [@ EXCEPT !.pc = "x_run", !.at = now]
                   ELSE Thrown(@, Err("jexec", procs[i].name))]
  /\ UNCHANGED << jails, datasets, mounts, rules, registry, callVars, naming, execs, lists >>

\* await execFile(...): the command ends; it was killed when its unit is gone.
ExecExit(i) ==
  /\ procs[i].pc = "x_run"
  /\ procs' = [procs EXCEPT ![i] =
                 IF procs[i].name \in DOMAIN jails
                   THEN [@ EXCEPT !.pc = "done"]
                   ELSE Thrown(@, Err("jexec", procs[i].name))]
  /\ UNCHANGED << jails, datasets, mounts, rules, registry, callVars, naming, execs, lists >>

\* The moments after the unit was ensured that matter: just after, and when
\* the hot window has passed.
InUseTimes == { 1, HOT_JAIL_WINDOW_MS }

\* Time passes; a running command has ended before its timeout.
Elapse ==
  /\ \E t \in InUseTimes :
       /\ now < t
       /\ t <= MaxNow
       /\ \A i \in DOMAIN procs :
            procs[i].pc = "x_run" => t - procs[i].at < EXEC_TIMEOUT_MS
       /\ now' = t
  /\ UNCHANGED << jails, datasets, mounts, rules, registry, calls, faulted, last >>
  /\ UNCHANGED aux

\* The ensure calls on the unit of session s1: with the configuration the
\* unit has, and with another one.
InUseParams ==
  { Params(<< "s", "1" >>, JailA, HostWorkspace, "rw"),
    Params(<< "s", "1" >>, JailE, HostAgentWorkspace, "ro") }

\* The unit of session s1 was ensured at time 0; an ensure call and a
\* jailExec call on it are started.
InitInUse ==
  /\ \E pre \in { Provisioned([host |-> FreshHost, registry |-> << >>],
                                Params(<< "s", "1" >>, JailA, HostWorkspace, "rw")) } :
       /\ jails = pre.host.jails
       /\ datasets = pre.host.datasets
       /\ mounts = pre.host.mounts
       /\ rules = pre.host.rules
       /\ registry = pre.registry
       /\ last = [op |-> "none", name |-> << >>, params |-> NoParams,
                  faults |-> NoFaults, now |-> 0, pre |-> pre,
                  ops |-> << >>, err |-> NoErr, val |-> << >>, hint |-> FALSE,
                  prev |-> [op |-> "none", name |-> << >>, params |-> NoParams,
                            err |-> NoErr, val |-> << >>, hint |-> FALSE]]
  /\ now = 0
  /\ calls = 0
  /\ faulted = 0
  /\ procs \in { << StartOf(EnsureCall(p)), StartExec(ExecCall(<< "a", "-", "s", "1" >>)) >> :
                    p \in InUseParams }
  /\ naming = << >>
  /\ execs = << >>
  /\ lists = << >>

NextInUse ==
  \/ Elapse
  \/ \E i \in DOMAIN procs : ExecSpawn(i)
  \/ \E i \in DOMAIN procs : ExecExit(i)
  \/ \E i \in DOMAIN procs : EnsureQuery(i)
  \/ \E i \in DOMAIN procs : EnsureReadRegistry(i)
  \/ \E i \in DOMAIN procs : RegistryRead(i)
  \/ \E i \in DOMAIN procs : RegistryWrite(i)
  \/ \E i \in DOMAIN procs : TeardownQuery(i)
  \/ \E i \in DOMAIN procs : TeardownJail(i)
  \/ \E i \in DOMAIN procs : TeardownRules(i)
  \/ \E i \in DOMAIN procs : TeardownListClone(i)
  \/ \E i \in DOMAIN procs : TeardownMountpoint(i)
  \/ \E i \in DOMAIN procs : TeardownListMounts(i)
  \/ \E i \in DOMAIN procs : TeardownUmount(i)
  \/ \E i \in DOMAIN procs : TeardownListClone2(i)
  \/ \E i \in DOMAIN procs : TeardownClone(i)
  \/ \E i \in DOMAIN procs : CloneList(i)
  \/ \E i \in DOMAIN procs : CloneListParent(i)
  \/ \E i \in DOMAIN procs : CloneCmd(i)
  \/ \E i \in DOMAIN procs : CloneMountpoint(i)
  \/ \E i \in DOMAIN procs : DevfsList(i)
  \/ \E i \in DOMAIN procs : DevfsMount(i)
  \/ \E i \in DOMAIN procs : TmpfsMount(i)
  \/ \E i \in DOMAIN procs : WorkspaceMount(i)
  \/ \E i \in DOMAIN procs : AgentMount(i)
  \/ \E i \in DOMAIN procs : NullfsMount(i)
  \/ \E i \in DOMAIN procs : JailStart(i)
  \/ \E i \in DOMAIN procs : RctlAdd(i)
  \/ \E i \in DOMAIN procs : SetupCommand(i)

SpecInUse == InitInUse /\ [][NextInUse]_vars

\* ------------------------------------------------------------------------
\* Whole calls on a unit with free-form extra rules
\* ------------------------------------------------------------------------

\* JailA with two extra rules: one with the {name} template, one of another
\* subject without it.
JailF ==
  [JailA EXCEPT !.extraRctlRules =
     << << "j", "a", "i", "l", ":", "{", "n", "a", "m", "e", "}", ":",
           "w", ":", "d", "e", "n", "y", "=", "1" >>,
        << "u", "s", "e", "r", ":", "u", ":", "w", ":", "d", "e", "n", "y", "=", "1" >> >>]

ExtraRuleParams ==
  { Params(<< "s", "1" >>, j, HostWorkspace, "rw") : j \in {JailA, JailF} }

ExtraRuleNames ==
  { JailNameOf(p.cfg.scope, p.sessionKey, p.cfg.jail.jailPrefix) : p \in ExtraRuleParams }

NextExtraRules ==
  EnsureOf(ExtraRuleParams) \/ DestroyOf(ExtraRuleNames, {JailA, JailF})

SpecExtraRules == Init /\ [][NextExtraRules]_vars

\* ------------------------------------------------------------------------
\* The unmounts of a destroy, for the values the mountpoint lookup returns
\* ------------------------------------------------------------------------

\* Two units, the name of the second extending the name of the first.
UnmountParams ==
  { Params(<< "s", "1" >>, JailA, HostWorkspace, "rw"),
    Params(<< "s", "1", "0" >>, JailE, HostAgentWorkspace, "ro") }

UnmountNames ==
  { JailNameOf(p.cfg.scope, p.sessionKey, p.cfg.jail.jailPrefix) : p \in UnmountParams }

\* The mounts of the host itself: the root file system and the clone parent.
HostMounts ==
  << [fs |-> "zfs", src |-> << >>, mp |-> << "/" >>, ro |-> FALSE],
     [fs |-> "zfs", src |-> << >>, mp |-> MountpointOf(JailA.cloneParent), ro |-> FALSE] >>

\* What zfs get -H -o value mountpoint prints for the clone of a unit: the
\* path inherited from the clone parent, mounted at its default place or
\* elsewhere, or none or legacy when the parent is not mounted by ZFS.
LookupValues(name) ==
  { MountpointOf(cloneDataset(JailA, name)),
    << "/", "m", "/" >> \o name,
    << "n", "o", "n", "e" >>,
    << "l", "e", "g", "a", "c", "y" >> }

\* Both units were ensured on a host with its own mounts.
InitUnmount ==
  /\ \E pre \in { Provisioned(Provisioned([host |-> FreshHost, registry |-> << >>],
                                            Params(<< "s", "1" >>, JailA, HostWorkspace,
                                                   "rw")),
                                Params(<< "s", "1", "0" >>, JailE, HostAgentWorkspace,
                                       "ro")) } :
       /\ jails = pre.host.jails
       /\ datasets = pre.host.datasets
       /\ mounts = HostMounts \o pre.host.mounts
       /\ rules = pre.host.rules
       /\ registry = pre.registry
       /\ last = [op |-> "none", name |-> << >>, params |-> NoParams,
                  faults |-> NoFaults, now |-> 0,
                  pre |-> [host |-> [pre.host EXCEPT !.mounts = HostMounts \o @],
                           registry |-> pre.registry],
                  ops |-> << >>, err |-> NoErr, val |-> << >>, hint |-> FALSE,
                  prev |-> [op |-> "none", name |-> << >>, params |-> NoParams,
                            err |-> NoErr, val |-> << >>, hint |-> FALSE]]
  /\ now = 0
  /\ calls = 0
  /\ faulted = 0
  /\ procs = << >>
  /\ naming = << >>
  /\ execs = << >>
  /\ lists = << >>

\* Step 3 of destroyJailSandbox for a unit: the mountpoint lookup returns
\* root, and unmountAllUnder(root) runs; one of its invocations may fail.
UnmountOf(Names) ==
  /\ calls < MaxCalls
  /\ \E name \in Names :
       \E root \in LookupValues(name) :
         \E f \in 0..unmountAllUnder(Ctx, "destroy", 0, root).n :
           \E c \in { unmountAllUnder(Ctx, "destroy", f, root) } :
             /\ faulted + FaultCount(FALSE, f, 0, 0) <= MaxFaults
             /\ faulted' = faulted + FaultCount(FALSE, f, 0, 0)
             /\ mounts' = c.mounts
             /\ last' = [op |-> "unmount", name |-> name, params |-> NoParams,
                         faults |-> [q |-> FALSE, d |-> f, c |-> 0, r |-> 0],
                         now |-> now,
                         pre |-> [host |-> Host, registry |-> registry],
                         ops |-> c.ops, err |-> NoErr, val |-> root,
                         hint |-> FALSE, prev |-> Summary(last)]
  /\ calls' = calls + 1
  /\ UNCHANGED << jails, datasets, rules, registry, now >>
  /\ UNCHANGED aux

NextUnmount == UnmountOf(UnmountNames) \/ DestroyOf(UnmountNames, {JailA})

SpecUnmount == InitUnmount /\ [][NextUnmount]_vars

\* ------------------------------------------------------------------------
\* Whole calls for one unit with configurations of two snapshots
\* ------------------------------------------------------------------------

SnapshotParams ==
  { Params(<< "s", "1" >>, j, HostWorkspace, "rw") : j \in {JailA, JailG} }

SnapshotNames ==
  { JailNameOf(p.cfg.scope, p.sessionKey, p.cfg.jail.jailPrefix) : p \in SnapshotParams }

NextSnapshot == EnsureOf(SnapshotParams) \/ DestroyOf(SnapshotNames, {JailA})

SpecSnapshot == Init /\ [][NextSnapshot]_vars

\* ------------------------------------------------------------------------
\* Sandbox datasets (freebsd/zfs.ts): two ensureSandboxDataset calls in
\* progress at the same time.  Every await of a zfs invocation is a step.
\* ------------------------------------------------------------------------

\* The pool resolveZfsPool has resolved and cached.
ResolvedPool == << "z" >>

\* <pool>/<parentDataset>/<sandboxesDir>
SandboxesDataset ==
  ResolvedPool \o << "/" >> \o << "f", "r", "e", "e", "c", "l", "a", "w" >>
    \o << "/" >> \o << "s", "a", "n", "d", "b", "o", "x", "e", "s" >>

\* resolveSandboxDatasetName: <pool>/<parentDataset>/<sandboxesDir>/<sessionKey>
resolveSandboxDatasetName(sessionKey) == SandboxesDataset \o << "/" >> \o sessionKey

\* <pool>/<baseJailDataset>
BaseJailDataset ==
  ResolvedPool \o << "/" >> \o << "f", "r", "e", "e", "c", "l", "a", "w", "/", "b", "a", "s", "e", "-", "j", "a", "i", "l" >>

\* <pool>/<baseJailDataset>@<BASE_SNAPSHOT_LABEL>
BaseJailSnapshot ==
  BaseJailDataset \o << "@" >> \o << "f", "r", "e", "e", "c", "l", "a", "w", "-", "b", "a", "s", "e" >>

\* cloneDataset.substring(0, cloneDataset.lastIndexOf("/"))
RECURSIVE ParentOf(_)
ParentOf(dataset) ==
  IF dataset = << >> THEN << >>
  ELSE IF dataset[Len(dataset)] = "/" THEN SubSeq(dataset, 1, Len(dataset) - 1)
  ELSE ParentOf(SubSeq(dataset, 1, Len(dataset) - 1))

\* datasetExists: zfs list -H -o name <dataset> exits 0.
datasetExists(dataset) == dataset \in DOMAIN datasets

\* An ensureSandboxDataset call at its first zfs invocation.
DatasetCall(sessionKey) ==
  [op |-> "dataset", key |-> sessionKey, name |-> resolveSandboxDatasetName(sessionKey),
   pc |-> "s_exists", ok |-> FALSE, val |-> << >>]

\* Call i goes on; the host is as it was.
Goes(i, pr) ==
  /\ procs' = [procs EXCEPT ![i] = pr]
  /\ UNCHANGED << jails, datasets, mounts, rules, registry, callVars, naming, execs, lists >>

\* ensureSandboxDataset: if (await datasetExists(dataset)) return ok(dataset)
SandboxExists(i) ==
  /\ procs[i].pc = "s_exists"
  /\ Goes(i, IF datasetExists(procs[i].name)
               THEN [procs[i] EXCEPT !.pc = "done", !.ok = TRUE, !.val = procs[i].name]
               ELSE [procs[i] EXCEPT !.pc = "k_exists"])

\* cloneForSandbox: if (await datasetExists(cloneDataset)) return ok(cloneDataset)
CloneExists(i) ==
  /\ procs[i].pc = "k_exists"
  /\ Goes(i, IF datasetExists(procs[i].name)
               THEN [procs[i] EXCEPT !.pc = "done", !.ok = TRUE, !.val = procs[i].name]
               ELSE [procs[i] EXCEPT !.pc = "k_parent"])

\* if (!(await datasetExists(parentDataset)))
ParentExists(i) ==
  /\ procs[i].pc = "k_parent"
  /\ Goes(i, IF datasetExists(ParentOf(procs[i].name))
               THEN [procs[i] EXCEPT !.pc = "k_clone"]
               ELSE [procs[i] EXCEPT !.pc = "k_create"])

\* await zfs(["create", "-p", parentDataset]): the dataset and its missing
\* ancestors are created; -p makes it succeed on a dataset that is there.
\* The invocation may fail (time-out): the catch block looks again.
ParentCreate(i) ==
  /\ procs[i].pc = "k_create"
  /\ \/ /\ datasets' = [d \in DOMAIN datasets \cup { ParentOf(procs[i].name) } |->
                          IF d \in DOMAIN datasets THEN datasets[d] ELSE [origin |-> << >>]]
        /\ procs' = [procs EXCEPT ![i] = [@ EXCEPT !.pc = "k_clone"]]
        /\ UNCHANGED faulted
     \/ /\ faulted < MaxFaults
        /\ faulted' = faulted + 1
        /\ procs' = [procs EXCEPT ![i] = [@ EXCEPT !.pc = "k_parent_again"]]
        /\ UNCHANGED datasets
  /\ UNCHANGED << jails, mounts, rules, registry, now, calls, last, naming, execs, lists >>

\* catch: if (!(await datasetExists(parentDataset))) return { ok: false, ... }
ParentExistsAgain(i) ==
  /\ procs[i].pc = "k_parent_again"
  /\ Goes(i, IF datasetExists(ParentOf(procs[i].name))
               THEN [procs[i] EXCEPT !.pc = "k_clone"]
               ELSE [procs[i] EXCEPT !.pc = "failed"])

\* await zfs(["clone", baseSnapshot, cloneDataset]): fails when the dataset
\* is there, or its parent or the snapshot is not; a failure is returned.
SandboxClone(i) ==
  /\ procs[i].pc = "k_clone"
  /\ IF /\ procs[i].name \notin DOMAIN datasets
        /\ ParentOf(procs[i].name) \in DOMAIN datasets
        /\ BaseJailDataset \in DOMAIN datasets
       THEN /\ datasets' = (procs[i].name :> [origin |-> BaseJailSnapshot]) @@ datasets
            /\ procs' = [procs EXCEPT ![i] = [@ EXCEPT !.pc = "done", !.ok = TRUE,
                                                       !.val = procs[i].name]]
       ELSE /\ procs' = [procs EXCEPT ![i] = [@ EXCEPT !.pc = "failed"]]
            /\ UNCHANGED datasets
  /\ UNCHANGED << jails, mounts, rules, registry, callVars, naming, execs, lists >>

DatasetKeys == { << "s", "1" >>, << "s", "2" >> }

\* The pool with the base jail and its snapshot; the sandboxes dataset and
\* sandboxes of earlier calls may be there.
DatasetHosts ==
  { [d \in {BaseJailDataset} \cup more |-> [origin |-> << >>]] :
      more \in { {}, {SandboxesDataset} } }
    \cup { (resolveSandboxDatasetName(k) :> [origin |-> BaseJailSnapshot])
             @@ [d \in {BaseJailDataset, SandboxesDataset} |-> [origin |-> << >>]] :
             k \in DatasetKeys }

InitDataset ==
  /\ jails = << >>
  /\ datasets \in DatasetHosts
  /\ mounts = << >>
  /\ rules = {}
  /\ registry = << >>
  /\ now = 0
  /\ calls = 0
  /\ faulted = 0
  /\ last = [op |-> "none", name |-> << >>, params |-> NoParams, faults |-> NoFaults,
             now |-> 0, pre |-> [host |-> Host, registry |-> registry],
             ops |-> << >>, err |-> NoErr, val |-> << >>, hint |-> FALSE,
             prev |-> [op |-> "none", name |-> << >>, params |-> NoParams,
                       err |-> NoErr, val |-> << >>, hint |-> FALSE]]
  /\ procs \in { << DatasetCall(a), DatasetCall(b) >> : a \in DatasetKeys, b \in DatasetKeys }
  /\ naming = << >>
  /\ execs = << >>
  /\ lists = << >>

NextDataset ==
  \/ \E i \in DOMAIN procs : SandboxExists(i)
  \/ \E i \in DOMAIN procs : CloneExists(i)
  \/ \E i \in DOMAIN procs : ParentExists(i)
  \/ \E i \in DOMAIN procs : ParentCreate(i)
  \/ \E i \in DOMAIN procs : ParentExistsAgain(i)
  \/ \E i \in DOMAIN procs : SandboxClone(i)

SpecDataset == InitDataset /\ [][NextDataset]_vars

\* ------------------------------------------------------------------------
\* Vocabulary of the properties
\* ------------------------------------------------------------------------

\* The last call invoked one of these tools.
Issued(tools) == \E i \in 1..Len(last.ops) : last.ops[i].tool \in tools

\* The last call invoked the tool on the target and it succeeded.
Did(tool, arg) ==
  \E i \in 1..Len(last.ops) :
    last.ops[i].tool = tool /\ last.ops[i].arg = arg /\ last.ops[i].ok

\* Tools that provision: clone, mounts, unit creation, limits, setup.
CreationTools ==
  { "zfs create", "zfs clone", "mount devfs", "mount tmpfs", "mount_nullfs",
    "jail -c", "rctl -a", "jexec" }

\* Tools that tear down: unit removal, rule removal, unmount, clone destroy.
TeardownTools == { "jail -r", "rctl -r", "umount", "zfs destroy" }

\* The fingerprint the parameters of an ensure call ask for.
DesiredHash(p) ==
  computeSandboxConfigHash(
    [docker |-> p.cfg.jail, workspaceAccess |-> p.cfg.workspaceAccess,
     workspaceDir |-> p.workspaceDir, agentWorkspaceDir |-> p.agentWorkspaceDir])

\* The fingerprint of the parameters a live unit was built with.
BuiltHash(b) ==
  computeSandboxConfigHash(
    [docker |-> b.cfg, workspaceAccess |-> b.workspaceAccess,
     workspaceDir |-> b.workspaceDir, agentWorkspaceDir |-> b.agentWorkspaceDir])

\* Mount points at or under the root of a unit's clone.
MountedUnder(ms, root) ==
  { i \in 1..Len(ms) : ms[i].mp = root \/ StartsWith(ms[i].mp, root \o << "/" >>) }

RootOf(cfg, jailName) == MountpointOf(cloneDataset(cfg, jailName))

\* The last call was an ensure that found the unit live, with a registry
\* entry of another fingerprint.
DriftSeen ==
  /\ last.op = "ensure"
  /\ ~last.faults.q
  /\ last.name \in DOMAIN last.pre.host.jails
  /\ last.name \in DOMAIN last.pre.registry
  /\ last.pre.registry[last.name].configHash # DesiredHash(last.params)

LastUsedAgo == last.now - last.pre.registry[last.name].lastUsedAtMs

\* ------------------------------------------------------------------------
\* Properties
\* ------------------------------------------------------------------------

\* C1: an ensure that follows a successful ensure with the same session key,
\* spec, workspace paths and access mode, and whose state query answers,
\* returns the same unit name and invokes no clone, mount, unit-creation,
\* unit-removal, unmount or clone-destroy tool.
C1_ReuseIsIdempotent ==
  ( /\ last.op = "ensure"
    /\ last.prev.op = "ensure"
    /\ last.prev.err = NoErr
    /\ last.prev.params = last.params
    /\ ~last.faults.q )
  => /\ last.err = NoErr
     /\ last.val = last.prev.val
     /\ ~Issued(CreationTools \cup TeardownTools)
     /\ last.pre.host = Host

C1_Witness ==
  /\ last.op = "ensure"
  /\ last.prev.op = "ensure"
  /\ last.prev.err = NoErr
  /\ last.prev.params = last.params
  /\ ~last.faults.q
  /\ last.now >= HOT_JAIL_WINDOW_MS
  /\ last.val = last.name


\* C2: whenever a unit is live and its registry entry holds the fingerprint
\* of some parameters, the unit was built by a creation pipeline run with
\* parameters of that fingerprint.
C2_FingerprintTellsOrigin ==
  \A n \in DOMAIN jails : \A p \in EnsureParams :
    (n \in DOMAIN registry /\ registry[n].configHash = DesiredHash(p))
      => BuiltHash(jails[n].built) = DesiredHash(p)

\* Position of the first successful invocation of the tool on the target
\* in the last call, 0 when there is none.
FirstDone(tool, arg) ==
  IF Did(tool, arg)
    THEN CHOOSE i \in 1..Len(last.ops) :
           /\ last.ops[i].tool = tool /\ last.ops[i].arg = arg /\ last.ops[i].ok
           /\ \A k \in 1..(i - 1) :
                ~(last.ops[k].tool = tool /\ last.ops[k].arg = arg /\ last.ops[k].ok)
    ELSE 0

\* C3: when the unit is live, its registry fingerprint differs from the
\* desired one and it was last used at least the hot window ago, ensure
\* runs destroy and then the creation pipeline; it succeeds when no tool
\* fails, and whenever it returns the unit was removed and created anew
\* from the desired parameters and the registry holds their fingerprint.
C3_ColdDriftRecreates ==
  (DriftSeen /\ LastUsedAgo >= HOT_JAIL_WINDOW_MS)
  => /\ \E i \in 1..Len(last.ops) : last.ops[i].phase = "destroy"
     /\ (last.faults.d = 0 /\ last.faults.c = 0) => last.err = NoErr
     /\ last.err = NoErr =>
          /\ last.val = last.name
          /\ 0 < FirstDone("jail -r", last.name)
          /\ FirstDone("jail -r", last.name) < FirstDone("jail -c", last.name)
          /\ last.name \in DOMAIN jails
          /\ BuiltHash(jails[last.name].built) = DesiredHash(last.params)
          /\ registry[last.name].configHash = DesiredHash(last.params)

C3_Witness ==
  /\ DriftSeen
  /\ LastUsedAgo = HOT_JAIL_WINDOW_MS
  /\ last.err = NoErr
  /\ Did("zfs destroy", cloneDataset(last.params.cfg.jail, last.name))
  /\ Did("zfs clone", cloneDataset(last.params.cfg.jail, last.name))
  /\ Did("jexec", last.name)

\* C4: when the unit is running, its registry fingerprint differs from the
\* desired one and it was last used within the hot window, ensure invokes
\* no teardown and no creation tool, the unit stays as it was, and ensure
\* returns its name.
C4_HotDriftIsDeferred ==
  (DriftSeen /\ LastUsedAgo < HOT_JAIL_WINDOW_MS)
  => /\ ~Issued(TeardownTools \cup CreationTools)
     /\ Host = last.pre.host
     /\ last.name \in DOMAIN jails
     /\ last.hint
     /\ last.err = NoErr
     /\ last.val = last.name

C4_Witness ==
  /\ DriftSeen
  /\ LastUsedAgo = HOT_JAIL_WINDOW_MS - 1
  /\ last.name \in DOMAIN jails
  /\ last.val = last.name

\* C5: every scope key has at most one live unit provisioned for it.
C5_OneUnitPerScopeKey ==
  \A k \in { resolveSandboxScopeKey(p.cfg.scope, p.sessionKey) : p \in EnsureParams } :
    Cardinality({ n \in DOMAIN jails :
                    n \in DOMAIN registry /\ registry[n].sessionKey = k }) <= 1

\* Tools of the try block of createJail whose failure throws.
PipelineTools ==
  { "mount devfs", "mount tmpfs", "mount_nullfs", "jail -c", "rctl -a", "jexec" }

\* C6: when a step of the creation pipeline after the clone fails and no
\* tool of the rollback fails, then after ensure has raised the error the
\* unit is absent, nothing is mounted at or under the clone root and the
\* clone dataset does not exist.
C6_RollbackLeavesNothing ==
  (last.op = "ensure" /\ last.err.tool \in PipelineTools /\ last.faults.r = 0)
  => /\ last.name \notin DOMAIN jails
     /\ MountedUnder(mounts, RootOf(last.params.cfg.jail, last.name)) = {}
     /\ cloneDataset(last.params.cfg.jail, last.name) \notin DOMAIN datasets

C6_Witness ==
  /\ last.op = "ensure"
  /\ last.err.tool = "rctl -a"
  /\ last.faults.r = 0
  /\ Did("jail -c", last.name)
  /\ Did("mount_nullfs", PathJoin(RootOf(last.params.cfg.jail, last.name),
                                  last.params.cfg.jail.workdir))

\* C7: after ensure has raised an error, no unit that the call created is
\* live, whatever rollback steps failed.
C7_NoOrphanUnit ==
  (last.op = "ensure" /\ last.err # NoErr /\ Did("jail -c", last.name))
  => last.name \notin DOMAIN jails

\* C8: destroy returns normally only if the unit is absent afterwards: when
\* the unit-removal step fails and the unit is still live, destroy reports
\* failure.
C8_DestroyFailsIfRemovalFails ==
  ( /\ last.op = "destroy"
    /\ \E i \in 1..Len(last.ops) : last.ops[i].tool = "jail -r" /\ ~last.ops[i].ok
    /\ last.name \in DOMAIN jails )
  => last.err # NoErr

\* The invocations of the creation pipeline in the last call.
PipelineOps == SelectSeq(last.ops, LAMBDA o : o.phase = "create")

\* The invocation the creation pipeline of the last call stopped at failed
\* and threw.
PipelineThrew ==
  /\ last.op = "ensure"
  /\ PipelineOps # << >>
  /\ ~PipelineOps[Len(PipelineOps)].ok
  /\ PipelineOps[Len(PipelineOps)].tool \in CreationTools \cup {"zfs get"}

\* C9: when a step of the creation pipeline fails, the error ensure raises
\* is that step's error, also when the rollback itself threw.
C9_OriginalErrorIsRaised ==
  PipelineThrew
  => last.err = Err(PipelineOps[Len(PipelineOps)].tool, PipelineOps[Len(PipelineOps)].arg)

C9_Witness ==
  /\ PipelineThrew
  /\ last.err.tool = "jexec"
  /\ \E i \in 1..Len(last.ops) :
       /\ last.ops[i].phase = "rollback"
       /\ last.ops[i].tool = "zfs get"
       /\ ~last.ops[i].ok

\* Rules whose subject is not the unit.
RulesOfOthers(rs, jailName) ==
  { r \in rs : ~StartsWith(r, << "j", "a", "i", "l", ":" >> \o jailName \o << ":" >>) }

\* The last call was a destroy for a name with no live unit and no clone.
DestroyOfAbsent ==
  /\ last.op = "destroy"
  /\ last.name \notin DOMAIN last.pre.host.jails
  /\ cloneDataset(last.params.cfg.jail, last.name) \notin DOMAIN last.pre.host.datasets

\* C10: destroy for a name with no live unit and no clone dataset returns
\* without error, invokes no unit removal, unmount or clone destroy, and
\* leaves the jails, datasets, mounts, registry and the rules of other units
\* as they were; and a destroy whose tools all succeed leaves the unit, its
\* rules and its clone absent, so that a second destroy right after it is
\* such a call and changes nothing.
C10_DestroyOfAbsentIsNoop ==
  /\ DestroyOfAbsent
     => /\ last.err = NoErr
        /\ ~Issued({"umount", "zfs destroy", "jail -r"})
        /\ jails = last.pre.host.jails
        /\ datasets = last.pre.host.datasets
        /\ mounts = last.pre.host.mounts
        /\ registry = last.pre.registry
        /\ rules \subseteq last.pre.host.rules
        /\ RulesOfOthers(rules, last.name) = RulesOfOthers(last.pre.host.rules, last.name)
  /\ (last.op = "destroy" /\ last.faults.d = 0)
     => /\ last.err = NoErr
        /\ last.name \notin DOMAIN jails
        /\ cloneDataset(last.params.cfg.jail, last.name) \notin DOMAIN datasets
        /\ rules = RulesOfOthers(rules, last.name)

C10_Witness ==
  /\ DestroyOfAbsent
  /\ DOMAIN jails # {}
  /\ mounts # << >>
  /\ rules # {}

\* ------------------------------------------------------------------------
\* Clone lifecycle, unmount order
\* ------------------------------------------------------------------------

\* The unit of the last call was live before the call.
WasLive == last.name \in DOMAIN last.pre.host.jails

\* The clone dataset under the root of the unit that was live before the
\* last call.
OldClone == cloneDataset(last.pre.host.jails[last.name].built.cfg, last.name)

\* The last call was a destroy of a live unit, or an ensure that recreated
\* a live unit because of cold drift, and none of its tools failed.
TornDown ==
  /\ WasLive
  /\ last.faults = NoFaults
  /\ \/ last.op = "destroy"
     \/ DriftSeen /\ LastUsedAgo >= HOT_JAIL_WINDOW_MS

\* C11: after a destroy of a live unit, or an ensure that recreated it
\* because of cold drift, the clone dataset that backed the old unit was
\* destroyed, and unless the new unit took its place the dataset and every
\* mount at or under its root are gone, whichever configuration was passed.
C11_OldCloneIsGone ==
  TornDown
  => /\ Did("zfs destroy", OldClone)
     /\ OldClone # cloneDataset(last.params.cfg.jail, last.name)
          => /\ OldClone \notin DOMAIN datasets
             /\ MountedUnder(mounts, MountpointOf(OldClone)) = {}

\* The positions of the last call's unmounts.
Unmounts == { i \in 1..Len(last.ops) : last.ops[i].tool = "umount" }

\* C12: within one teardown, for every pair of mount points where one path
\* is an ancestor of the other, the unmount of the descendant is issued
\* before the unmount of the ancestor; and a destroy that finds the clone
\* and whose tools all succeed issues an unmount for every mount point at
\* or under the root.
C12_DescendantsFirst ==
  /\ \A i \in Unmounts : \A j \in Unmounts :
       ( /\ last.ops[i].phase = last.ops[j].phase
         /\ StartsWith(last.ops[j].arg, last.ops[i].arg \o << "/" >>) )
       => j < i
  /\ ( /\ last.op = "destroy"
       /\ last.faults = NoFaults
       /\ cloneDataset(last.params.cfg.jail, last.name) \in DOMAIN last.pre.host.datasets )
     => \A k \in MountedUnder(last.pre.host.mounts,
                              RootOf(last.params.cfg.jail, last.name)) :
          \E i \in Unmounts : last.ops[i].arg = last.pre.host.mounts[k].mp

\* A destroy unmounted the root, the working directory and the mount
\* below the working directory.
C12_Witness ==
  /\ last.op = "destroy"
  /\ Did("umount", RootOf(last.params.cfg.jail, last.name))
  /\ Did("umount", PathJoin(RootOf(last.params.cfg.jail, last.name), << "/", "w" >>))
  /\ Did("umount", PathJoin(RootOf(last.params.cfg.jail, last.name),
                            << "/", "w", "/", "k" >>))

\* ------------------------------------------------------------------------
\* Unit names
\* ------------------------------------------------------------------------

\* The characters of the model that are in [a-zA-Z0-9._-].
IdentifierChars ==
  { CharOrder[i] : i \in 1..Len(CharOrder) } \ { " ", "/", ":", "@", "{", "}" }

Named(i) == naming.names[i] # NotNamed

\* C13: the unit name is the same whenever it is computed from the same
\* scope kind, key and prefix, it is at most 64 characters long and each
\* of its characters is in [a-zA-Z0-9._-].
C13_NameIsDeterministicAndSafe ==
  /\ \A i \in 1..2 :
       Named(i)
       => /\ Len(naming.names[i]) <= 64
          /\ \A k \in 1..Len(naming.names[i]) : naming.names[i][k] \in IdentifierChars
  /\ naming.again # NotNamed => naming.again = naming.names[1]
  /\ (Named(1) /\ Named(2) /\ naming.keys[1] = naming.keys[2])
     => naming.names[1] = naming.names[2]

\* A name that was cut at 64 characters and had a character replaced,
\* computed twice.
C13_Witness ==
  /\ Named(1)
  /\ naming.again # NotNamed
  /\ Len(naming.prefix) + Len(naming.keys[1]) > 64
  /\ Len(naming.names[1]) = 64
  /\ naming.prefix = << "b", "@" >>
  /\ naming.names[1][2] = "_"

\* C14: two distinct scope keys of a scope kind that is not shared, with
\* the same prefix, are given distinct unit names, and so distinct clones.
C14_DistinctKeysDistinctNames ==
  ( /\ Named(1) /\ Named(2)
    /\ naming.scope # "shared"
    /\ resolveSandboxScopeKey(naming.scope, naming.keys[1])
         # resolveSandboxScopeKey(naming.scope, naming.keys[2]) )
  => /\ naming.names[1] # naming.names[2]
     /\ cloneDataset(JailA, naming.names[1]) # cloneDataset(JailA, naming.names[2])

\* ------------------------------------------------------------------------
\* C15: provisioning is not observable
\* ------------------------------------------------------------------------

\* Call i is creating its unit and the jail is started, but a resource
\* limit is still to be applied or the setup command still to be run.
Provisioning(i) ==
  /\ procs # << >>
  /\ procs[i].op = "ensure"
  /\ procs[i].pc \in {"c_rctl", "c_jexec"}

\* C15: a state query that returned while another call was still applying
\* the resource limits of the unit of that name, or had not yet run its
\* setup command, did not return exists = true.
C15_ProvisioningIsNotObservable ==
  \A i \in DOMAIN procs, q \in DOMAIN procs :
    (/\ Provisioning(i)
     /\ procs[q].op = "query"
     /\ procs[q].pc = "done"
     /\ procs[q].name = procs[i].name)
      => ~procs[q].exists

\* ------------------------------------------------------------------------
\* C16: registry writers of different unit names
\* ------------------------------------------------------------------------

\* Call i is an ensure call that returned its unit name.
Ensured(i) ==
  /\ procs[i].op = "ensure"
  /\ procs[i].pc = "done"

\* C16: when two ensure calls for different unit names have both returned,
\* the registry holds the entry each of them wrote.
C16_BothEntriesArePresent ==
  \A i \in DOMAIN procs, k \in DOMAIN procs :
    (/\ Ensured(i)
     /\ Ensured(k)
     /\ procs[i].name # procs[k].name)
      => /\ procs[i].name \in DOMAIN registry
         /\ registry[procs[i].name] = EntryOf(procs[i])

\* ------------------------------------------------------------------------
\* C17: calls on distinct unit names
\* ------------------------------------------------------------------------

\* The host after call pr ran whole, with no other call in progress, on the
\* host and registry of pre.
WholeCall(pre, pr) ==
  LET Host0 == [jails |-> pre.host.jails, datasets |-> pre.host.datasets,
                mounts |-> pre.host.mounts, rules |-> pre.host.rules,
                ops |-> << >>, n |-> 0]
      HostOf(c) == [jails |-> c.jails, datasets |-> c.datasets,
                    mounts |-> c.mounts, rules |-> c.rules]
      Ensured1(r) == [host |-> HostOf(r.c), registry |-> r.reg]
  IN  IF pr.op = "ensure"
        THEN Ensured1(ensureJailSandbox(Host0, pre.registry, 0, FALSE, 0, 0, 0, pr.params))
        ELSE [host |-> HostOf(destroyJailSandbox(Host0, "destroy", 0, pr.name, pr.cfg).c),
              registry |-> pre.registry]

\* The mounts at or under root, oldest first.
MountsAt(ms, root) ==
  SelectSeq(ms, LAMBDA m : m.mp = root \/ StartsWith(m.mp, root \o << "/" >>))

\* Two hosts with the same units, clones and rules, and the same mounts
\* under each of the roots.
SameUnits(h1, h2, roots) ==
  /\ h1.jails = h2.jails
  /\ h1.datasets = h2.datasets
  /\ h1.rules = h2.rules
  /\ Len(h1.mounts) = Len(h2.mounts)
  /\ \A root \in roots : MountsAt(h1.mounts, root) = MountsAt(h2.mounts, root)

\* A tool invocation on the unit of that name: its jail, its clone, a mount
\* point at or under its root, or a rule of its subject.
Touches(op, cfg, jailName) ==
  \/ op.arg = jailName
  \/ op.arg = cloneDataset(cfg, jailName)
  \/ op.arg = RootOf(cfg, jailName)
  \/ StartsWith(op.arg, RootOf(cfg, jailName) \o << "/" >>)
  \/ StartsWith(op.arg, << "j", "a", "i", "l", ":" >> \o jailName \o << ":" >>)

\* Both calls are ensure or destroy calls, on distinct unit names, and both
\* have ended.
DistinctCallsEnded ==
  /\ procs # << >>
  /\ \A i \in DOMAIN procs : /\ procs[i].op \in {"ensure", "destroy"}
                             /\ procs[i].pc \in {"done", "failed"}
  /\ procs[1].name # procs[2].name

\* C17: two ensure or destroy calls on distinct unit names, interleaved in
\* any way, leave the units, clones, rules and the mounts under each root
\* as the two calls run one after the other leave them, and no tool
\* invocation of one call is on the unit, clone, mounts or rules of the other.
C17_DistinctNamesDoNotContend ==
  /\ DistinctCallsEnded =>
       SameUnits(Host, WholeCall(WholeCall(last.pre, procs[1]), procs[2]).host,
                 { RootOf(procs[i].cfg, procs[i].name) : i \in DOMAIN procs })
  /\ \A i \in DOMAIN procs, k \in DOMAIN procs :
       (/\ procs[i].op \in {"ensure", "destroy"}
        /\ procs[k].op \in {"ensure", "destroy"}
        /\ procs[i].name # procs[k].name)
         => \A n \in 1..Len(procs[i].ops) :
              ~Touches(procs[i].ops[n], procs[k].cfg, procs[k].name)

\* Two ensure calls on distinct names built their units at the same time:
\* both returned, and a mount of the second unit lies between two mounts of
\* the first in the mount table.
C17_Witness ==
  /\ DistinctCallsEnded
  /\ \A i \in DOMAIN procs : procs[i].op = "ensure" /\ procs[i].pc = "done"
  /\ \E a \in 1..Len(mounts), b \in 1..Len(mounts), c \in 1..Len(mounts) :
       /\ a < b /\ b < c
       /\ a \in MountedUnder(mounts, RootOf(procs[1].cfg, procs[1].name))
       /\ b \in MountedUnder(mounts, RootOf(procs[2].cfg, procs[2].name))
       /\ c \in MountedUnder(mounts, RootOf(procs[1].cfg, procs[1].name))

\* ------------------------------------------------------------------------
\* C18: the result of exec
\* ------------------------------------------------------------------------

\* C18: a command that exits non-zero makes jailExec throw, unless the
\* caller set allowFailure: then jailExec returns the output and the
\* non-zero exit code.  A command that exits zero returns code 0.
C18_ExecResultContract ==
  \A n \in 1..Len(execs) :
    execs[n].outcome.kind = "exit" =>
      IF execs[n].outcome.status = 0
        THEN ~execs[n].result.threw /\ execs[n].result.code = 0
      ELSE IF execs[n].allowFailure
        THEN /\ ~execs[n].result.threw
             /\ execs[n].result.code = execs[n].outcome.status
             /\ execs[n].result.stdout = execs[n].outcome.stdout
             /\ execs[n].result.stderr = execs[n].outcome.stderr
        ELSE execs[n].result.threw

\* A command exited with status 2 for a caller with allowFailure, and
\* another for a caller without.
C18_Witness ==
  \E n \in 1..Len(execs), m \in 1..Len(execs) :
    /\ execs[n].outcome.kind = "exit" /\ execs[n].outcome.status = 2
    /\ execs[n].allowFailure /\ execs[n].result.code = 2
    /\ execs[m].outcome.kind = "exit" /\ execs[m].outcome.status = 2
    /\ ~execs[m].allowFailure /\ execs[m].result.threw

\* ------------------------------------------------------------------------
\* C19: a resource limit that cannot be applied
\* ------------------------------------------------------------------------

\* The last call was an ensure whose rctl -a of this rule failed.
RuleFailed(rule) ==
  /\ last.op = "ensure"
  /\ \E i \in 1..Len(last.ops) :
       /\ last.ops[i].tool = "rctl -a"
       /\ last.ops[i].arg = rule
       /\ ~last.ops[i].ok

\* C19: when the rctl -a of one rule of the list fails, every other rule
\* of the list is still applied.
C19_OtherRulesAreApplied ==
  \A k \in 1..Len(buildRctlRules(last.name, last.params.cfg.jail)) :
    RuleFailed(buildRctlRules(last.name, last.params.cfg.jail)[k]) =>
      \A m \in 1..Len(buildRctlRules(last.name, last.params.cfg.jail)) :
        m # k => Did("rctl -a", buildRctlRules(last.name, last.params.cfg.jail)[m])

\* ------------------------------------------------------------------------
\* C20: the mount steps over a root that is already mounted
\* ------------------------------------------------------------------------

MountTools == { "mount devfs", "mount tmpfs", "mount_nullfs" }

\* The mount points the mount steps of createJail set up under root for
\* params p of ensureJailSandbox.
PlannedTargets(p, root) ==
  { PathJoin(root, << "d", "e", "v" >>) }
    \cup { PathJoin(root, p.cfg.jail.tmpfs[i]) : i \in 1..Len(p.cfg.jail.tmpfs) }
    \cup (IF p.cfg.workspaceAccess # "none"
            THEN { PathJoin(root, p.cfg.jail.workdir) } ELSE {})
    \cup (IF p.cfg.workspaceAccess # "none" /\ p.workspaceDir # p.agentWorkspaceDir
            THEN { PathJoin(root, SANDBOX_AGENT_WORKSPACE_MOUNT) } ELSE {})
    \cup { PathJoin(root, p.cfg.jail.nullfsMounts[i].dst) :
             i \in 1..Len(p.cfg.jail.nullfsMounts) }

\* The mount points of the host the last call started on.
MountedBefore == { last.pre.host.mounts[i].mp : i \in 1..Len(last.pre.host.mounts) }

\* The last call was an ensure that ran its creation pipeline on a root with
\* every mount of the pipeline already in place.
RanOverMountedRoot ==
  /\ last.op = "ensure"
  /\ Issued({"jail -c"} \cup MountTools)
  /\ PlannedTargets(last.params, RootOf(last.params.cfg.jail, last.name))
       \subseteq MountedBefore

\* C20: the mount steps of a creation pipeline that runs over a root whose
\* mounts are all in place issue no mount command for a mount point that
\* was mounted already.
C20_NoDoubleMount ==
  RanOverMountedRoot =>
    \A i \in 1..Len(last.ops) :
      (last.ops[i].phase = "create" /\ last.ops[i].tool \in MountTools)
        => last.ops[i].arg \notin MountedBefore

\* ------------------------------------------------------------------------
\* C21: a teardown step that fails
\* ------------------------------------------------------------------------

\* The tools of the teardown steps: unit removal, rule removal, mountpoint
\* lookup, unmount, clone destruction.
TeardownStepTools == { "jail -r", "rctl -r", "zfs get", "umount", "zfs destroy" }

\* The last call was a destroy of a unit that was live on its clone, and
\* one invocation of a teardown step failed.
TeardownStepFailed ==
  /\ last.op = "destroy"
  /\ last.name \in DOMAIN last.pre.host.jails
  /\ cloneDataset(last.params.cfg.jail, last.name) \in DOMAIN last.pre.host.datasets
  /\ \E i \in 1..Len(last.ops) :
       last.ops[i].tool \in TeardownStepTools /\ ~last.ops[i].ok

\* C21: in a destroy where one teardown step fails, every teardown step is
\* still attempted: unit removal, rule removal, the unmounts and the clone
\* destruction are all issued.
C21_RemainingStepsAreAttempted ==
  TeardownStepFailed => \A t \in TeardownTools : Issued({t})

\* ------------------------------------------------------------------------
\* C22: the workspace mounts
\* ------------------------------------------------------------------------

\* The last call issued mount_nullfs of src at dst, successfully.
BindMounted(src, dst) ==
  \E i \in 1..Len(last.ops) :
    /\ last.ops[i].phase = "create"
    /\ last.ops[i].tool = "mount_nullfs"
    /\ last.ops[i].src = src
    /\ last.ops[i].arg = dst
    /\ last.ops[i].ok

\* The last call was an ensure that built its unit on a fresh root, no tool
\* failing.
BuiltUnit ==
  /\ last.op = "ensure"
  /\ last.err = NoErr
  /\ last.faults = NoFaults
  /\ Did("zfs clone", cloneDataset(last.params.cfg.jail, last.name))
  /\ Did("jail -c", last.name)

\* C22: a creation pipeline bind-mounts the primary workspace at the
\* working directory whatever the access mode, read-only exactly when the
\* access is ro and the agent workspace is the primary one, and bind-mounts
\* the agent workspace exactly when it is another directory.
C22_WorkspaceMounts ==
  BuiltUnit =>
    /\ BindMounted(last.params.workspaceDir,
                   PathJoin(RootOf(last.params.cfg.jail, last.name),
                            last.params.cfg.jail.workdir))
    /\ \A i \in 1..Len(last.ops) :
         (/\ last.ops[i].tool = "mount_nullfs"
          /\ last.ops[i].arg = PathJoin(RootOf(last.params.cfg.jail, last.name),
                                        last.params.cfg.jail.workdir))
           => (last.ops[i].ro <=> (/\ last.params.cfg.workspaceAccess = "ro"
                                   /\ last.params.workspaceDir
                                        = last.params.agentWorkspaceDir))
    /\ BindMounted(last.params.agentWorkspaceDir,
                   PathJoin(RootOf(last.params.cfg.jail, last.name),
                            SANDBOX_AGENT_WORKSPACE_MOUNT))
         <=> last.params.workspaceDir # last.params.agentWorkspaceDir

\* ------------------------------------------------------------------------
\* C23: the call after a deferred recreation
\* ------------------------------------------------------------------------

\* The last call was an ensure that followed an ensure with the same
\* parameters which deferred the recreation of the drifted unit, and it
\* was made with the unit's last use outside the hot window.
AfterDeferral ==
  /\ last.op = "ensure"
  /\ last.prev.op = "ensure"
  /\ last.prev.params = last.params
  /\ last.prev.hint
  /\ last.prev.err = NoErr
  /\ ~last.faults.q
  /\ last.name \in DOMAIN last.pre.host.jails
  /\ last.name \in DOMAIN last.pre.registry
  /\ LastUsedAgo >= HOT_JAIL_WINDOW_MS

\* C23: an ensure that follows a deferred recreation with the same desired
\* spec, once the last use is outside the hot window, destroys and
\* recreates the unit: the live unit is then built from the desired spec.
C23_DeferredRecreationHappensLater ==
  AfterDeferral =>
    /\ last.name \in DOMAIN jails
    /\ BuiltHash(jails[last.name].built) = DesiredHash(last.params)
    /\ Did("jail -r", last.name)
    /\ Did("jail -c", last.name)

\* ------------------------------------------------------------------------
\* C24: the order of a teardown
\* ------------------------------------------------------------------------

\* The place of a teardown tool in the order unit removal, rule removal,
\* unmount, clone destruction.
TeardownRank(tool) ==
  CASE tool = "jail -r"     -> 1
    [] tool = "rctl -r"     -> 2
    [] tool = "umount"      -> 3
    [] tool = "zfs destroy" -> 4

\* C24: the teardown tools of one teardown (a destroy call, the destroy of
\* a drifted unit, a rollback) are invoked in the order unit removal, rule
\* removal, unmounts, clone destruction, each after the one before it.
C24_TeardownOrder ==
  \A i \in 1..Len(last.ops), k \in 1..Len(last.ops) :
    (/\ i < k
     /\ last.ops[i].phase = last.ops[k].phase
     /\ last.ops[i].tool \in TeardownTools
     /\ last.ops[k].tool \in TeardownTools)
      => TeardownRank(last.ops[i].tool) <= TeardownRank(last.ops[k].tool)

\* A destroy call removed the unit, its rules, its mounts and its clone.
C24_Witness ==
  /\ last.op = "destroy"
  /\ Did("jail -r", last.name)
  /\ Did("rctl -r", last.name)
  /\ Did("umount", RootOf(last.params.cfg.jail, last.name))
  /\ Did("zfs destroy", cloneDataset(last.params.cfg.jail, last.name))

\* ------------------------------------------------------------------------
\* C25: the order of a creation pipeline
\* ------------------------------------------------------------------------

\* The place of a creation tool in the order clone, mounts and files under
\* the root, unit creation, resource limits, setup command.
CreationRank(tool) ==
  CASE tool \in {"zfs create", "zfs clone"}              -> 1
    [] tool \in MountTools                                -> 2
    [] tool \in {"write resolv.conf", "write hosts"}      -> 2
    [] tool = "jail -c"                                   -> 3
    [] tool = "rctl -a"                                   -> 4
    [] tool = "jexec"                                     -> 5

RankedCreationTools == CreationTools \cup {"write resolv.conf", "write hosts"}

\* C25: the tools of one creation pipeline are invoked in the order clone,
\* then every mount and the files under the root, then unit creation, then
\* the resource limits, then the setup command.
C25_CreationOrder ==
  \A i \in 1..Len(last.ops), k \in 1..Len(last.ops) :
    (/\ i < k
     /\ last.ops[i].phase = "create"
     /\ last.ops[k].phase = "create"
     /\ last.ops[i].tool \in RankedCreationTools
     /\ last.ops[k].tool \in RankedCreationTools)
      => /\ CreationRank(last.ops[i].tool) <= CreationRank(last.ops[k].tool)
         /\ last.ops[k].tool \in {"jail -c", "jexec"}
              => CreationRank(last.ops[i].tool) < CreationRank(last.ops[k].tool)

\* An ensure call built a unit: clone, device nodes, scratch space,
\* workspace and extra bind mount, resolv.conf and hosts, unit, two resource
\* limits, setup command.
C25_Witness ==
  /\ last.op = "ensure"
  /\ last.err = NoErr
  /\ Did("zfs clone", cloneDataset(last.params.cfg.jail, last.name))
  /\ Did("mount devfs", PathJoin(RootOf(last.params.cfg.jail, last.name),
                                 << "d", "e", "v" >>))
  /\ Did("mount tmpfs", PathJoin(RootOf(last.params.cfg.jail, last.name),
                                 << "/", "t" >>))
  /\ Did("mount_nullfs", PathJoin(RootOf(last.params.cfg.jail, last.name),
                                  << "/", "w", "/", "k" >>))
  /\ Issued({"write resolv.conf"})
  /\ Issued({"write hosts"})
  /\ Did("jail -c", last.name)
  /\ Cardinality({ i \in 1..Len(last.ops) :
                     last.ops[i].tool = "rctl -a" /\ last.ops[i].ok }) = 2
  /\ Did("jexec", last.name)

\* ------------------------------------------------------------------------
\* C26: the clone step
\* ------------------------------------------------------------------------

\* The invocations of the creation pipeline of the last call.
CreateOps == SelectSeq(last.ops, LAMBDA op : op.phase = "create")

\* Invocation n of the creation pipeline is this tool on this target.
CreateOpIs(n, tool, arg) ==
  /\ Len(CreateOps) >= n
  /\ CreateOps[n].tool = tool
  /\ CreateOps[n].arg = arg

\* Invocation n of the creation pipeline is the clone of base@snapshot into
\* <clone parent>/<unit name>.
CloneIssuedAt(n) ==
  /\ CreateOpIs(n, "zfs clone",
                last.params.cfg.jail.cloneParent \o << "/" >> \o last.name)
  /\ CreateOps[n].src = last.params.cfg.jail.baseDataset \o << "@" >>
                          \o last.params.cfg.jail.baseSnapshot

\* The last call ran a creation pipeline.
Cloning == last.op = "ensure" /\ CreateOps # << >>

\* C26: the clone step lists the clone dataset of the unit name.  When it is
\* listed the step issues no zfs create and no zfs clone and looks up the
\* dataset's mountpoint.  Otherwise it lists the clone parent, creates it
\* if it is not listed, and then clones base@snapshot into
\* <clone parent>/<unit name>.  A dataset that exists is listed unless the
\* listing itself fails.
C26_CloneIsIdempotent ==
  Cloning =>
    /\ CreateOpIs(1, "zfs list", cloneDataset(last.params.cfg.jail, last.name))
    /\ CreateOps[1].ok
         => /\ \A n \in 1..Len(CreateOps) :
                 CreateOps[n].tool \notin {"zfs create", "zfs clone"}
            /\ CreateOpIs(2, "zfs get", cloneDataset(last.params.cfg.jail, last.name))
    /\ ~CreateOps[1].ok
         => /\ CreateOpIs(2, "zfs list", last.params.cfg.jail.cloneParent)
            /\ CreateOps[2].ok => CloneIssuedAt(3)
            /\ ~CreateOps[2].ok
                 => /\ CreateOpIs(3, "zfs create", last.params.cfg.jail.cloneParent)
                    /\ CreateOps[3].ok => CloneIssuedAt(4)
    /\ (last.faults.c # 1 /\ \A n \in 1..Len(last.ops) : last.ops[n].phase # "destroy")
         => (CreateOps[1].ok
               <=> cloneDataset(last.params.cfg.jail, last.name)
                     \in DOMAIN last.pre.host.datasets)

\* A creation pipeline found the clone dataset of its unit and went on at
\* its mountpoint.
C26_Witness ==
  /\ Cloning
  /\ cloneDataset(last.params.cfg.jail, last.name) \in DOMAIN last.pre.host.datasets
  /\ CreateOps[1].ok
  /\ CreateOpIs(2, "zfs get", cloneDataset(last.params.cfg.jail, last.name))
  /\ CreateOps[2].ok
  /\ CreateOpIs(3, "mount -t devfs", << >>)

\* ------------------------------------------------------------------------
\* C27: the clone parent created by another caller
\* ------------------------------------------------------------------------

\* The zfs create -p of call i failed while the clone parent existed:
\* another caller had created it after call i listed it.
ParentRaceLost(i) ==
  /\ procs # << >>
  /\ procs[i].op = "ensure"
  /\ \E n \in 1..Len(procs[i].ops) :
       /\ procs[i].ops[n].tool = "zfs create"
       /\ procs[i].ops[n].arg = procs[i].cfg.cloneParent
       /\ ~procs[i].ops[n].ok
  /\ procs[i].exists

\* C27: a call whose zfs create -p of the clone parent fails while the
\* parent exists does not throw that error: it goes on to the clone.
C27_ParentRaceIsTolerated ==
  \A i \in DOMAIN procs :
    ParentRaceLost(i) => ~(procs[i].pc = "failed" /\ procs[i].err.tool = "zfs create")

\* ------------------------------------------------------------------------
\* C28: the resource rule list
\* ------------------------------------------------------------------------

\* The resources with a bound, each with its configuration field.
BoundedResources ==
  { [field |-> "maxProc", resource |-> << "m", "a", "x", "p", "r", "o", "c" >>],
    [field |-> "memoryuse", resource |-> << "m", "e", "m", "o", "r", "y", "u", "s", "e" >>],
    [field |-> "vmemoryuse",
     resource |-> << "v", "m", "e", "m", "o", "r", "y", "u", "s", "e" >>],
    [field |-> "pcpu", resource |-> << "p", "c", "p", "u" >>],
    [field |-> "openfiles", resource |-> << "o", "p", "e", "n", "f", "i", "l", "e", "s" >>],
    [field |-> "coredumpsize",
     resource |-> << "c", "o", "r", "e", "d", "u", "m", "p", "s", "i", "z", "e" >>] }

\* The bound of the resource gives a rule: it is set and positive, or it is
\* the core-dump size and zero.
BoundApplies(b) ==
  \E v \in lists.cfg[b.field] : v > 0 \/ (b.field = "coredumpsize" /\ v = 0)

\* The places of the built list that hold a rule of the unit for the resource.
RulesFor(b) ==
  { i \in 1..Len(lists.rules) :
      StartsWith(lists.rules[i],
                 << "j", "a", "i", "l", ":" >> \o lists.name \o << ":" >>
                   \o b.resource \o << ":" >>) }

\* The extra rules of the bundle with {name} replaced, spaces around them
\* dropped, the blank ones left out.
RECURSIVE ExtrasExpected(_)
ExtrasExpected(raws) ==
  IF raws = << >> THEN << >>
  ELSE (IF Trim(ReplaceName(Head(raws), lists.name)) = << >> THEN << >>
        ELSE << Trim(ReplaceName(Head(raws), lists.name)) >>)
         \o ExtrasExpected(Tail(raws))

\* The number of bounds of the bundle that give a rule.
BoundsApplying == Cardinality({ b \in BoundedResources : BoundApplies(b) })

HasArg(a) == \E i \in 1..Len(lists.args) : lists.args[i] = a

\* The arguments of the built list that name a network mode.
NetworkArgs ==
  { lists.args[i] : i \in 1..Len(lists.args) }
    \cap { << "i", "p", "4", "=", "d", "i", "s", "a", "b", "l", "e" >>,
           << "i", "p", "6", "=", "d", "i", "s", "a", "b", "l", "e" >>,
           << "v", "n", "e", "t" >> }

\* The extra parameters of the configuration that are not blank, as given.
RECURSIVE NonBlankParams(_)
NonBlankParams(params) ==
  IF params = << >> THEN << >>
  ELSE (IF Trim(Head(params)) = << >> THEN << >> ELSE << Head(params) >>)
         \o NonBlankParams(Tail(params))

\* The number of arguments of the list that do not come from the extra
\* parameters: -c, the six of every unit, those of the network mode and the
\* two of the root mode.
FixedArgs == 9 + (IF lists.cfg.network = "none" THEN 2
                  ELSE IF lists.cfg.network = "vnet" THEN 1 ELSE 0)

\* C29: the argument list holds name, path, persist, host.hostname = unit
\* name, children.max=0 and securelevel=3; network none adds ip4=disable,
\* vnet adds vnet, inherit adds no network argument; a read-only root adds
\* allow.mount=0 and enforce_statfs=2, otherwise allow.mount=1 and
\* enforce_statfs=1; the non-blank extra parameters come after all of these,
\* unchanged.
C29_CreateArgs ==
  lists # << >> /\ "args" \in DOMAIN lists /\ lists.args # NotBuilt =>
    /\ HasArg(<< "n", "a", "m", "e", "=" >> \o lists.name)
    /\ HasArg(<< "p", "a", "t", "h", "=" >> \o lists.root)
    /\ HasArg(<< "p", "e", "r", "s", "i", "s", "t" >>)
    /\ HasArg(<< "h", "o", "s", "t", ".", "h", "o", "s", "t", "n", "a", "m", "e", "=" >>
                \o lists.name)
    /\ HasArg(<< "c", "h", "i", "l", "d", "r", "e", "n", ".", "m", "a", "x", "=", "0" >>)
    /\ HasArg(<< "s", "e", "c", "u", "r", "e", "l", "e", "v", "e", "l", "=", "3" >>)
    /\ lists.cfg.network = "none"
         => HasArg(<< "i", "p", "4", "=", "d", "i", "s", "a", "b", "l", "e" >>)
    /\ lists.cfg.network = "vnet" => NetworkArgs = { << "v", "n", "e", "t" >> }
    /\ lists.cfg.network = "inherit" => NetworkArgs = {}
    /\ HasArg(<< "a", "l", "l", "o", "w", ".", "m", "o", "u", "n", "t", "=" >>
                \o (IF lists.cfg.readOnlyRoot THEN << "0" >> ELSE << "1" >>))
    /\ HasArg(<< "e", "n", "f", "o", "r", "c", "e", "_", "s", "t", "a", "t", "f", "s",
                 "=" >> \o (IF lists.cfg.readOnlyRoot THEN << "2" >> ELSE << "1" >>))
    /\ ~ HasArg(<< "a", "l", "l", "o", "w", ".", "m", "o", "u", "n", "t", "=" >>
                  \o (IF lists.cfg.readOnlyRoot THEN << "1" >> ELSE << "0" >>))
    /\ ~ HasArg(<< "e", "n", "f", "o", "r", "c", "e", "_", "s", "t", "a", "t", "f", "s",
                   "=" >> \o (IF lists.cfg.readOnlyRoot THEN << "1" >> ELSE << "2" >>))
    /\ SubSeq(lists.args, FixedArgs + 1, Len(lists.args))
         = NonBlankParams(lists.cfg.jailParams)

\* ------------------------------------------------------------------------
\* C30: the state query only observes
\* ------------------------------------------------------------------------

\* The latest call was a state query.
Queried == last.op = "query"

\* C30: a state query issues the unit query and nothing else; it reports
\* exists and running both true exactly when that query succeeded with
\* output, which is when the query did not fail and the unit is live, and both
\* false otherwise, whatever the registry holds; the units, rule sets, mounts,
\* clones and the registry are as before the query.
C30_QueryOnlyObserves ==
  Queried =>
    /\ Len(last.ops) = 1
    /\ last.ops[1].tool = "jls"
    /\ last.ops[1].arg = last.name
    /\ last.val.exists = last.ops[1].ok
    /\ last.val.running = last.val.exists
    /\ last.ops[1].ok = (~last.faults.q /\ last.name \in DOMAIN last.pre.host.jails)
    /\ Host = last.pre.host
    /\ registry = last.pre.registry

\* A query failed on a live unit and reported it absent, with the unit and
\* the registry entry still there.
C30_Witness ==
  /\ Queried
  /\ last.faults.q
  /\ last.name \in DOMAIN jails
  /\ last.name \in DOMAIN registry
  /\ ~last.val.exists
  /\ ~last.val.running

\* ------------------------------------------------------------------------
\* C31: ensure and a unit in use
\* ------------------------------------------------------------------------

\* A command of a jailExec call is running in its unit.
ExecInProgress(i) == procs[i].op = "exec" /\ procs[i].pc = "x_run"

\* C31: while the command of a jailExec call is running in a unit, the unit
\* is live: the ensure call, the only call that can remove it, does not
\* destroy it.
C31_EnsureSparesUnitInUse ==
  \A i \in DOMAIN procs : ExecInProgress(i) => procs[i].name \in DOMAIN jails

\* ------------------------------------------------------------------------
\* C32: the two outcomes of an ensure call
\* ------------------------------------------------------------------------

\* The latest call was an ensure call.
EnsureEnded == last.op = "ensure"

\* The call returned its unit name with the registry entry of the call
\* written.
ReturnedUpserted ==
  /\ last.err = NoErr
  /\ last.val = last.name
  /\ last.name \in DOMAIN registry
  /\ registry[last.name].configHash = ExpectedHash(last.params)
  /\ registry[last.name].lastUsedAtMs = last.now

\* The call raised an error and invocations of the rollback were issued.
RaisedAfterRollback ==
  /\ last.err # NoErr
  /\ \E k \in 1..Len(last.ops) : last.ops[k].phase = "rollback"

\* C32: an ensure call whose tool invocations all return ends in exactly one
\* of two ways: it returns the unit name after the registry entry is
\* written, or it raises an error after the rollback was attempted.
C32_EnsureEndsOneOfTwoWays ==
  EnsureEnded => (ReturnedUpserted /\ ~RaisedAfterRollback)
                   \/ (RaisedAfterRollback /\ ~ReturnedUpserted)

\* ------------------------------------------------------------------------
\* C33: a live unit the registry does not know
\* ------------------------------------------------------------------------

\* The latest call was an ensure call that found its unit live and no
\* registry entry for it.
EnsuredUnknownUnit ==
  /\ EnsureEnded
  /\ ~last.faults.q
  /\ last.name \in DOMAIN last.pre.host.jails
  /\ last.name \notin DOMAIN last.pre.registry

RaisedOrDestroyed == (EnsureEnded /\ last.err # NoErr) \/ last.op = "destroy"

\* C34: an ensure call that raises an error, before or after its rollback
\* and also after it destroyed a cold drifted unit, and every destroy call
\* leave every registry entry as it was.
C34_RegistryChangesOnSuccessOnly ==
  RaisedOrDestroyed => registry = last.pre.registry

\* An ensure call destroyed the cold drifted unit of a registry entry and
\* then raised an error of its creation pipeline.
C34_Witness ==
  /\ EnsureEnded
  /\ last.err # NoErr
  /\ last.name \in DOMAIN registry
  /\ last.name \in DOMAIN last.pre.host.jails
  /\ last.name \notin DOMAIN jails
  /\ \E k \in 1..Len(last.ops) : last.ops[k].phase = "destroy" /\ last.ops[k].tool = "jail -r"
  /\ \E k \in 1..Len(last.ops) : last.ops[k].phase = "rollback"

\* ------------------------------------------------------------------------
\* C35: two ensure calls for one scope key and one configuration
\* ------------------------------------------------------------------------

\* Both calls are ensure calls with the same arguments.
SameEnsures ==
  /\ \A i \in DOMAIN procs : procs[i].op = "ensure"
  /\ \A i, j \in DOMAIN procs : procs[i].params = procs[j].params

\* C35: of two ensure calls with the same arguments that run at the same
\* time, a call that returns the unit name returns it with the unit live
\* and its clone there: the failure and rollback of the other call has not
\* destroyed them.
C35_ReturnedUnitIsLive ==
  [][SameEnsures =>
       \A i \in DOMAIN procs :
         procs[i].pc # "done" /\ procs'[i].pc = "done" =>
           /\ procs[i].name \in DOMAIN jails'
           /\ cloneDataset(procs[i].cfg, procs[i].name) \in DOMAIN datasets']_vars

\* ------------------------------------------------------------------------
\* C36: a failure inside the clone step
\* ------------------------------------------------------------------------

\* The latest call was an ensure call that raised an error of its clone
\* step: of zfs create -p, of zfs clone, or of the zfs get after it.
CloneStepFailed ==
  /\ EnsureEnded
  /\ last.faults.c > 0
  /\ last.err.tool \in { "zfs create", "zfs clone", "zfs get" }

\* C36: when an ensure call raises an error of its clone step, no clone
\* dataset that the call created remains.
C36_CloneStepIsRolledBack ==
  CloneStepFailed =>
    \A d \in DOMAIN datasets \ DOMAIN last.pre.host.datasets :
      d # cloneDataset(last.params.cfg.jail, last.name)

\* ------------------------------------------------------------------------
\* C37: the rules that remain after a destroy
\* ------------------------------------------------------------------------

\* The latest call was a destroy call that returned and whose rule removal
\* succeeded.
DestroyedWithRulesRemoved ==
  /\ last.op = "destroy"
  /\ last.err = NoErr
  /\ \E k \in 1..Len(last.ops) : last.ops[k].tool = "rctl -r" /\ last.ops[k].ok

\* The rules a creation pipeline applies for the unit under one of the
\* configurations.
PipelineRules(name) ==
  UNION { { buildRctlRules(name, p.cfg.jail)[k] :
              k \in 1..Len(buildRctlRules(name, p.cfg.jail)) } : p \in ExtraRuleParams }

\* C37: after a destroy call whose rule removal succeeded, no rule that a
\* creation pipeline applied for the unit is in force, the extra rules with
\* and without the {name} template included.
C37_NoRuleOfTheUnitRemains ==
  DestroyedWithRulesRemoved => rules \cap PipelineRules(last.name) = {}

\* ------------------------------------------------------------------------
\* C38: what a destroy unmounts
\* ------------------------------------------------------------------------

\* The latest call ran the unmounts of a destroy.
Unmounted == last.op \in { "unmount", "destroy" }

\* What the mountpoint lookup of the latest call returned for the clone of
\* its unit.
LookedUpRoot ==
  IF last.op = "unmount" THEN last.val
  ELSE MountpointOf(cloneDataset(last.params.cfg.jail, last.name))

\* The mount points of the host itself that are not the root looked up.
HostMountsOutside ==
  { HostMounts[k].mp : k \in 1..Len(HostMounts) } \ { LookedUpRoot }

\* C38: whatever the mountpoint lookup returns for the clone of the unit, a
\* destroy issues umount only for mount points equal to that root or beneath
\* it; the mounts of the other unit, whose name extends the name of this
\* one, and the mounts of the host outside that root stay.
C38_UnmountsOwnRootOnly ==
  Unmounted =>
    /\ \A k \in 1..Len(last.ops) :
         last.ops[k].tool = "umount" =>
           \/ last.ops[k].arg = LookedUpRoot
           \/ StartsWith(last.ops[k].arg, LookedUpRoot \o << "/" >>)
    /\ \A other \in UnmountNames \ { last.name } :
         MountsAt(mounts, MountpointOf(cloneDataset(JailA, other)))
           = MountsAt(last.pre.host.mounts, MountpointOf(cloneDataset(JailA, other)))
    /\ \A mp \in HostMountsOutside :
         SelectSeq(mounts, LAMBDA m : m.mp = mp)
           = SelectSeq(last.pre.host.mounts, LAMBDA m : m.mp = mp)

\* The mounts of unit a-s1 were unmounted while unit a-s10 had mounts.
C38_Witness ==
  /\ Unmounted
  /\ last.name = << "a", "-", "s", "1" >>
  /\ \E k \in 1..Len(last.ops) : last.ops[k].tool = "umount" /\ last.ops[k].ok
  /\ MountsAt(mounts, MountpointOf(cloneDataset(JailA, last.name))) = << >>
  /\ MountsAt(mounts, MountpointOf(cloneDataset(JailA, << "a", "-", "s", "1", "0" >>)))
       # << >>

\* ------------------------------------------------------------------------
\* C39: the snapshot the root clone derives from
\* ------------------------------------------------------------------------

\* The latest call was an ensure call that ran the creation pipeline and
\* returned.
CreatedAndReturned ==
  /\ EnsureEnded
  /\ last.err = NoErr
  /\ \E k \in 1..Len(last.ops) : last.ops[k].phase = "create"

\* C39: after an ensure call that ran the creation pipeline and returned,
\* the root clone of the unit derives from the snapshot of the configuration
\* asked for, which is the image of the registry entry, also when a clone of
\* that name was there before the call.
C39_CloneDerivesFromDesiredSnapshot ==
  CreatedAndReturned =>
    /\ cloneDataset(last.params.cfg.jail, last.name) \in DOMAIN datasets
    /\ datasets[cloneDataset(last.params.cfg.jail, last.name)].origin
         = snapshotPath(last.params.cfg.jail)
    /\ registry[last.name].image
         = << "z", "f", "s", ":" >>
             \o datasets[cloneDataset(last.params.cfg.jail, last.name)].origin

\* Both calls are ensureSandboxDataset calls for the same session key, both
\* have returned, and no zfs invocation failed for a reason of its own.
BothDatasetCallsEnded ==
  /\ Len(procs) = 2
  /\ \A i \in DOMAIN procs : procs[i].op = "dataset" /\ procs[i].pc \in {"done", "failed"}
  /\ procs[1].key = procs[2].key
  /\ faulted = 0

\* C40: two ensureSandboxDataset calls with the same session key, under every
\* interleaving of their existence checks and create/clone commands, both
\* return ok with the same dataset name, and exactly one clone dataset exists
\* afterwards.
C40_BothCallsReturnOneClone ==
  BothDatasetCallsEnded =>
    /\ \A i \in DOMAIN procs : procs[i].pc = "done" /\ procs[i].ok
    /\ procs[1].val = procs[2].val
    /\ procs[1].val = resolveSandboxDatasetName(procs[1].key)
    /\ procs[1].val \in DOMAIN datasets
    /\ { d \in DOMAIN datasets : datasets[d].origin # << >> }
         \ DOMAIN last.pre.host.datasets \subseteq { procs[1].val }

====
